---------------------------- MODULE Spec2Model ----------------------------
(***************************************************************************)
(* tHTTP: a static-file HTTP server.  main() scans the web root once into  *)
(* a hash table (scan_web_root), sets up the listening socket, enters the  *)
(* sandbox and then forks one worker per accepted connection               *)
(* (accept_next_connection / child_handle_client).                         *)
(*                                                                         *)
(* Bytes are one-character strings; a C string or a byte buffer is a       *)
(* sequence of them.  NUL, CR, LF and TAB are named bytes.                 *)
(***************************************************************************)
EXTENDS Integers, Sequences, FiniteSets, TLC

(***************************************************************************)
(* Bounds of the model.                                                    *)
(***************************************************************************)
\* Largest number of bytes one read() or send() call transfers.
MaxChunk == 3
\* Largest number of bytes the transport accepts before a send fails.
MaxTxCut == 1
\* Connections the listener accepts in one run (worker slots).
Conns == {1, 2}

(***************************************************************************)
(* Bytes and C strings.                                                    *)
(***************************************************************************)
NUL == "NUL"
CR == "CR"
LF == "LF"
TAB == "TAB"
VT == "VT"
FF == "FF"
SP == " "

Min(a, b) == IF a <= b THEN a ELSE b

\* The first n elements of s (all of s when it is shorter).
Take(s, n) == SubSeq(s, 1, Min(n, Len(s)))

\* s without its first n elements.
Drop(s, n) == SubSeq(s, Min(n, Len(s)) + 1, Len(s))

\* Index of the first NUL in buf, or Len(buf)+1: where a C string ends.
RECURSIVE NulIndex(_, _)
NulIndex(buf, i) ==
    IF i > Len(buf) THEN i
    ELSE IF buf[i] = NUL THEN i
    ELSE NulIndex(buf, i + 1)

\* The C string stored at the start of buf (bytes before the first NUL).
CStr(buf) == SubSeq(buf, 1, NulIndex(buf, 1) - 1)

\* strlen()
Strlen(buf) == Len(CStr(buf))

\* A comparison that takes "get" for "GET".
StrncmpEqAnyCase(a, b, n) ==
    LET Upper(ch) == CASE ch = "g" -> "G" [] ch = "e" -> "E" [] ch = "t" -> "T"
                       [] OTHER -> ch
        Folded(s) == [i \in 1..Len(s) |-> Upper(s[i])]
    IN  Take(Folded(CStr(a)), n) = Take(Folded(CStr(b)), n)

\* strncmp(a, b, n) == 0 for C strings a, b held in buffers.
StrncmpEq(a, b, n) == Take(CStr(a), n) = Take(CStr(b), n)

\* printf("%zu", n): the decimal digits of n.
Digit(d) == CASE d = 0 -> "0" [] d = 1 -> "1" [] d = 2 -> "2" [] d = 3 -> "3"
              [] d = 4 -> "4" [] d = 5 -> "5" [] d = 6 -> "6" [] d = 7 -> "7"
              [] d = 8 -> "8" [] d = 9 -> "9"

RECURSIVE FormatZu(_)
FormatZu(n) == IF n < 10 THEN <<Digit(n)>>
               ELSE FormatZu(n \div 10) \o <<Digit(n % 10)>>

(***************************************************************************)
(* Exit codes (enum tHTTPError).                                           *)
(***************************************************************************)
EXIT_OK == 0
EXIT_SOCKET_FAILED == 1
EXIT_BIND_FAILED == 2
EXIT_LISTEN_FAILED == 3
EXIT_SANDBOX_FAILED == 4
EXIT_FORK_FAILED == 5
EXIT_INVALID_NUMERIC_ENV_VAR == 6
EXIT_DONT_USE_ROOT == 7
EXIT_FTS_OPEN_FAILED == 8
EXIT_FTS_CLOSE_FAILED == 9
EXIT_FTS_READ_FAILED == 10
EXIT_SYMLINK_IN_WEB_ROOT == 11
EXIT_FTS_UNUSUAL_FILE == 13
EXIT_CYCLE_IN_WEB_ROOT == 14
EXIT_HCREATE_FAILED == 15
EXIT_FOPEN_FAILED == 16
EXIT_MALLOC_FAILED == 17
EXIT_FREAD_FAILED == 18
EXIT_HSEARCH_TABLE_FULL == 19
EXIT_SETSOCKOPT_FAILED == 20
EXIT_SOCKET_READ_FAILED == 21
EXIT_NON_GET_REQUEST == 22
EXIT_SOCKET_WEIRD_RX_LENGTH == 23
EXIT_WEIRD_REQUEST_PATH == 24
EXIT_NOTFOUND_NOT_FOUND == 25
EXIT_SOCKET_SEND_FAILED == 26
EXIT_SOCKET_WEIRD_TX_LENGTH == 27
\* The process is still running.
RUNNING == 0 - 1

(***************************************************************************)
(* The file system below the web root.  A tree is a sequence of nodes;     *)
(* node 1 is the root (its name is the configured path), a node's parent   *)
(* precedes it, and siblings are read in index order.                      *)
(*   kind: "dir", "file", "symlink", "special" (device, socket, FIFO),     *)
(*         "cycle" (a directory that closes a cycle), "unreadable" (a      *)
(*         directory that cannot be read), "nostat" (stat fails),          *)
(*         "xdev" (a directory on another device), "missing".              *)
(*   st_size: the size in the metadata fts_read saw; data: the bytes the   *)
(*         file holds when it is read.                                     *)
(***************************************************************************)
Node(p, name, kind, data, size) ==
    [parent |-> p, name |-> name, kind |-> kind, data |-> data, st_size |-> size]

Entry(p, name, kind) == Node(p, name, kind, <<>>, 0)

File(p, name, data) == Node(p, name, "file", data, Len(data))

N_index == <<"i", "n", "d", "e", "x", ".", "h", "t", "m", "l">>

\* A site: /a, /d/index.html, /d/b (empty), /index.html, /e, and the dot
\* entries .h and .g/ (which holds a file and a symbolic link).
TreeSite(root) ==
    << Entry(0, root, "dir"),
       File(1, <<"a">>, <<"x">>),
       Entry(1, <<"d">>, "dir"),
       File(3, N_index, <<"y", "z">>),
       File(3, <<"b">>, <<>>),
       File(1, <<".", "h">>, <<"s">>),
       Entry(1, <<".", "g">>, "dir"),
       File(7, <<"c">>, <<"t">>),
       Entry(7, <<"l">>, "symlink"),
       File(1, N_index, <<"r">>),
       File(1, <<"e">>, <<"n", "f">>) >>

\* The site with one more entry of the given kind inside d/.
TreeWith(root, kind) == Append(TreeSite(root), Entry(3, <<"k">>, kind))

\* The site with a symbolic link of a dot name inside d/.
TreeDotLink(root) == Append(TreeSite(root), Entry(3, <<".", "k">>, "symlink"))

\* A directory on another device holding a file.
TreeXdev(root) ==
    << Entry(0, root, "dir"),
       File(1, <<"a">>, <<"x">>),
       Entry(1, <<"m">>, "xdev"),
       File(3, <<"b">>, <<"y">>) >>

\* A file that changed between fts_read's stat and the read: data is what
\* the file holds at the read, size what the stat reported.
TreeChanged(root, data, size) ==
    << Entry(0, root, "dir"),
       Node(1, <<"a">>, "file", data, size) >>

\* The root itself is not a directory.
TreeRoot(root, kind) == << Node(0, root, kind, <<"x">>, 1) >>

\* An empty web root.
TreeEmpty(root) == << Entry(0, root, "dir") >>

W_plain == <<"w">>
W_slash == <<"w", "/">>
W_root == <<"/">>
W_dot == <<".", "w">>
W_rel == <<".", "/", "w">>
R_e == <<"/", "e">>
R_q == <<"/", "q">>

(***************************************************************************)
(* fts(3) with FTS_PHYSICAL | FTS_COMFOLLOW | FTS_XDEV, no comparison      *)
(* function.                                                               *)
(***************************************************************************)
\* fts_open without FTS_COMFOLLOW.
FTS_COMFOLLOW_Unset == FALSE

FTS_COMFOLLOW == TRUE

\* fts_path: the root's path is the argument of fts_open; below it each
\* name is appended after a "/".  How much of the parent's path is kept
\* (NAPPEND) differs between C libraries: macOS appends to the whole path
\* unless the root is "/" itself, which is what scan_web_root counts on;
\* glibc drops a trailing "/" first.
RECURSIVE FtsPath(_, _, _)
FtsPath(fs, n, trims) ==
    IF fs[n].parent = 0 THEN fs[n].name
    ELSE LET parent_path == FtsPath(fs, fs[n].parent, trims)
             len == Len(parent_path)
             nappend == IF trims
                        THEN IF len > 0 /\ parent_path[len] = "/" THEN len - 1 ELSE len
                        ELSE IF fs[fs[n].parent].parent = 0 /\ parent_path = <<"/">>
                             THEN 0 ELSE len
         IN  Take(parent_path, nappend) \o <<"/">> \o fs[n].name

\* The last "/" of a path, 0 if it has none.
RECURSIVE Strrchr(_, _)
Strrchr(path, i) ==
    IF i = 0 THEN 0 ELSE IF path[i] = "/" THEN i ELSE Strrchr(path, i - 1)

\* fts_name: the root's is what follows the last "/" of its path (the whole
\* path when that is "/" itself); below the root it is the entry's name.
FtsName(fs, n) ==
    IF fs[n].parent # 0 THEN fs[n].name
    ELSE LET path == fs[n].name
             cp == Strrchr(path, Len(path))
         IN  IF cp # 0 /\ (cp # 1 \/ Len(path) > 1) THEN Drop(path, cp) ELSE path

Children(fs, n) == { c \in 1..Len(fs) : fs[c].parent = n }

SetMin(S) == CHOOSE x \in S : \A y \in S : x <= y

LaterSiblings(fs, n) == { c \in 1..Len(fs) : fs[c].parent = fs[n].parent /\ c > n }

\* fts_info of an entry that is stat'ed without following links.
KindInfo(kind) ==
    CASE kind \in {"dir", "xdev", "unreadable"} -> "D"
      [] kind = "file" -> "F"
      [] kind = "symlink" -> "SL"
      [] kind = "cycle" -> "DC"
      [] kind \in {"nostat", "missing"} -> "NS"
      [] OTHER -> "DEFAULT"

\* fts_info of the root: with FTS_COMFOLLOW a symbolic link given as the
\* root is followed, and is FTS_SLNONE only when its target does not exist.
RootInfo(fs, link, comfollow) ==
    IF link
    THEN IF ~comfollow THEN "SL"
         ELSE IF fs[1].kind = "missing" THEN "SLNONE"
         ELSE KindInfo(fs[1].kind)
    ELSE KindInfo(fs[1].kind)

\* fts_read: the entry after cur, where cur.skip says FTS_SKIP was set on it.
\* A directory is returned in pre-order (FTS_D), then its children, then in
\* post-order (FTS_DP); a skipped directory, and one on another device, goes
\* straight to its post-order visit.  info "NULL" ends the walk: with errno 0
\* when the root has been left, and with errno set wherever a call finds that
\* it cannot go on, the first call included (fault "errno": the directory it
\* is in was moved away, it cannot change back to a parent or to the working
\* directory, memory has run out).
FtsRead(fs, link, cur, fault) ==
    IF fault = "errno" THEN [node |-> 0, info |-> "NULL", errno |-> TRUE]
    ELSE IF cur.info = "OPEN" THEN [node |-> 1, info |-> RootInfo(fs, link, FTS_COMFOLLOW)]
    ELSE IF cur.info = "D"
    THEN IF cur.skip \/ fs[cur.node].kind = "xdev" THEN [node |-> cur.node, info |-> "DP"]
         ELSE IF fs[cur.node].kind = "unreadable" THEN [node |-> cur.node, info |-> "DNR"]
         ELSE IF Children(fs, cur.node) = {} THEN [node |-> cur.node, info |-> "DP"]
         ELSE LET c == SetMin(Children(fs, cur.node))
              IN  [node |-> c, info |-> KindInfo(fs[c].kind)]
    ELSE IF fs[cur.node].parent = 0 THEN [node |-> 0, info |-> "NULL", errno |-> FALSE]
    ELSE IF LaterSiblings(fs, cur.node) # {}
    THEN LET s == SetMin(LaterSiblings(fs, cur.node))
         IN  [node |-> s, info |-> KindInfo(fs[s].kind)]
    ELSE [node |-> fs[cur.node].parent, info |-> "DP"]

(***************************************************************************)
(* Blob (blob.c) and the hsearch(3) table.                                 *)
(***************************************************************************)
\* The NULL Blob pointer.
NullBlob == [null |-> TRUE, length |-> 0, data |-> <<>>]

\* blob_new: size bytes, zeroed.
BlobNew(size) == [null |-> FALSE, length |-> size, data |-> [i \in 1..size |-> NUL]]

BlobGetSize(blob) == IF ~blob.null THEN blob.length ELSE 0

BlobGetData(blob) == IF ~blob.null THEN blob.data ELSE <<>>

\* fread(blob_get_data(blob), 1, blob_get_size(blob), f) that delivered
\* num_read bytes of the file.
Fread(blob, data, num_read) ==
    [blob EXCEPT !.data = [i \in 1..blob.length |->
                             IF i <= num_read THEN data[i] ELSE blob.data[i]]]

\* Entries with the key, in insertion order.
Matching(table, key) == { i \in 1..Len(table) : table[i].key = key }

\* hsearch(item, FIND): the entry with the key, or NULL.
HsearchFind(table, key) ==
    IF Matching(table, key) = {} THEN [found |-> FALSE, key |-> <<>>, data |-> NullBlob]
    ELSE LET e == table[SetMin(Matching(table, key))]
         IN  [found |-> TRUE, key |-> e.key, data |-> e.data]

\* hsearch(item, ENTER): a key already present keeps its entry.  src is not
\* part of the ENTRY: it records the node the item was made from.
HsearchEnter(table, key, blob, src) ==
    IF Matching(table, key) # {} THEN table
    ELSE Append(table, [key |-> key, data |-> blob, src |-> src])

(***************************************************************************)
(* The route of a file (scan_web_root, case FTS_F).                        *)
(***************************************************************************)
index_suffix == <<"/">> \o N_index

\* A route that loses "index.html" but keeps the slash before it.
RouteOfKeepingSlash(fts_path, base_path_len) ==
    LET file_path == Drop(fts_path, base_path_len)
        file_path_len == Len(file_path)
        index_suffix_len == Len(index_suffix)
    IN  IF file_path_len >= index_suffix_len
           /\ SubSeq(file_path, file_path_len - index_suffix_len + 1, file_path_len)
                = index_suffix
        THEN SubSeq(file_path, 1, file_path_len - index_suffix_len + 1)
        ELSE file_path

\* strdup(p->fts_path + base_path_len) with a trailing "/index.html"
\* stripped; an emptied path becomes "/".
RouteOf(fts_path, base_path_len) ==
    LET file_path == Drop(fts_path, base_path_len)
        file_path_len == Len(file_path)
        index_suffix_len == Len(index_suffix)
    IN  IF file_path_len >= index_suffix_len
           /\ SubSeq(file_path, file_path_len - index_suffix_len + 1, file_path_len)
                = index_suffix
        THEN IF file_path_len - index_suffix_len = 0 THEN <<"/">>
             ELSE SubSeq(file_path, 1, file_path_len - index_suffix_len)
        ELSE file_path

\* A scan that skips no name.
IsDotNameNever(name) == FALSE

\* p->fts_name[0] == '.'
IsDotName(name) == Len(name) >= 1 /\ name[1] = "."

(***************************************************************************)
(* socket_read (socket.c): read() in a loop into a buffer of max_size + 1  *)
(* bytes.  A read state is the loop's locals plus how the call ended:      *)
(* status "loop" (another read() follows), "done" (the buffer is           *)
(* returned), "fatal" (diag_fatal with exit code `exit`, after close(ns))  *)
(* or "killed" (the NUL terminator written through a NULL buffer: the      *)
(* process ends with SIGSEGV, ns is not closed by the program).            *)
(***************************************************************************)
ReadStart == [received |-> 0, in_buf |-> <<>>, status |-> "loop", exit |-> RUNNING,
              calls |-> 0, buffer |-> "allocated"]

\* A socket_read that returns whatever it received, without the length check.
SocketReadFinishUnchecked(st, min_size, max_size) ==
    IF st.buffer = "NULL" THEN [st EXCEPT !.status = "killed"]
    ELSE [st EXCEPT !.status = "done", !.in_buf = Take(st.in_buf, st.received) \o <<NUL>>]

\* After the loop: the length check and the NUL terminator, in_buf[received]
\* = 0.  The buffer is the unchecked result of malloc: when it is NULL the
\* write goes through the null pointer (received is 0 then, no byte having
\* been delivered).
SocketReadFinish(st, min_size, max_size) ==
    IF st.received < min_size \/ st.received > max_size
    THEN [st EXCEPT !.status = "fatal", !.exit = EXIT_SOCKET_WEIRD_RX_LENGTH]
    ELSE IF st.buffer = "NULL" THEN [st EXCEPT !.status = "killed"]
    ELSE [st EXCEPT !.status = "done", !.in_buf = Take(st.in_buf, st.received) \o <<NUL>>]

\* One iteration of the loop: read() returned num_read (-1: error) and, when
\* positive, delivered `bytes`.
SocketReadStep(st, num_read, bytes, min_size, max_size) ==
    LET called == [st EXCEPT !.calls = @ + 1]
    IN  IF num_read < 0
        THEN [called EXCEPT !.status = "fatal", !.exit = EXIT_SOCKET_READ_FAILED]
        ELSE IF num_read = 0 THEN SocketReadFinish(called, min_size, max_size)
        ELSE LET more == [called EXCEPT !.received = @ + num_read,
                                        !.in_buf = @ \o bytes]
             IN  IF more.received < max_size THEN more
                 ELSE SocketReadFinish(more, min_size, max_size)

\* What read(ns, buf, asked) returns for a peer that has `avail` bytes still to
\* deliver, at most `chunk` per call, and then closes ("close") or stays
\* silent until the receive timeout or resets ("error").  With the buffer
\* NULL no byte can be delivered: the read fails (EFAULT) as soon as there is
\* one.
ReadResult(avail, asked, chunk, end, buffer) ==
    IF avail > 0 /\ asked > 0
    THEN IF buffer = "NULL" THEN 0 - 1 ELSE Min(chunk, Min(asked, avail))
    ELSE IF end = "close" \/ asked = 0 THEN 0
    ELSE 0 - 1

\* A read that is asked for the whole buffer whatever was received before.
ReadAskWhole(max_size, received) == max_size

\* The size read() is asked for: max_size - received.
ReadAsk(max_size, received) == max_size - received

(***************************************************************************)
(* socket_send (socket.c): send() in a loop.  status "loop", "done",        *)
(* "fatal", or "killed" when a signal ended the process inside send();     *)
(* wire is what the transport has accepted.                                *)
(***************************************************************************)
SendStart == [sent |-> 0, wire |-> <<>>, status |-> "loop", exit |-> RUNNING,
              calls |-> 0]

\* After the loop: the length check.
SocketSendFinish(st, message_size) ==
    IF st.sent # message_size
    THEN [st EXCEPT !.status = "fatal", !.exit = EXIT_SOCKET_WEIRD_TX_LENGTH]
    ELSE [st EXCEPT !.status = "done"]

\* A loop that calls send again after a send that took nothing.
SocketSendStepRetrying(st, bytes, message, message_size) ==
    LET called == [st EXCEPT !.calls = @ + 1]
    IN  IF bytes < 0
        THEN [called EXCEPT !.status = "fatal", !.exit = EXIT_SOCKET_SEND_FAILED]
        ELSE LET more == [called EXCEPT
                            !.sent = @ + bytes,
                            !.wire = @ \o SubSeq(message, st.sent + 1, st.sent + bytes)]
             IN  IF more.sent < message_size THEN more
                 ELSE SocketSendFinish(more, message_size)

\* One iteration: send(socket, message + sent, message_size - sent) returned
\* bytes (-1: error).
SocketSendStep(st, bytes, message, message_size) ==
    LET called == [st EXCEPT !.calls = @ + 1]
    IN  IF bytes < 0
        THEN [called EXCEPT !.status = "fatal", !.exit = EXIT_SOCKET_SEND_FAILED]
        ELSE IF bytes = 0 THEN SocketSendFinish(called, message_size)
        ELSE LET more == [called EXCEPT
                            !.sent = @ + bytes,
                            !.wire = @ \o SubSeq(message, st.sent + 1, st.sent + bytes)]
             IN  IF more.sent < message_size THEN more
                 ELSE SocketSendFinish(more, message_size)

\* What send(socket, buf, asked, 0) does over a transport that takes at most
\* `chunk` bytes per call and, when tx.limited, only tx.cap bytes more before
\* the peer is gone.  Then it returns 0 (tx.end = "zero"), or fails with -1
\* (tx.end = "error": a reset that is reported once, or the send timeout), or
\* raises SIGPIPE (tx.end = "sigpipe": the peer has closed or reset; the flags
\* are 0 and the signal's disposition is the default one, so the process is
\* killed inside the call and nothing is returned).  A send of no bytes meets
\* the same end as any other.
SendResult(asked, accepted, chunk, tx) ==
    IF tx.limited /\ accepted >= tx.cap
    THEN [signal |-> IF tx.end = "sigpipe" THEN "SIGPIPE" ELSE "none",
          bytes |-> IF tx.end = "zero" THEN 0 ELSE 0 - 1]
    ELSE [signal |-> "none",
          bytes |-> IF tx.limited THEN Min(chunk, Min(asked, tx.cap - accepted))
                    ELSE Min(chunk, asked)]

\* The size send() is asked for: message_size - sent.
SendAsk(message_size, sent) == message_size - sent

\* A transport that takes everything.
Unlimited == [limited |-> FALSE, cap |-> 0, end |-> "zero"]

\* The transports a send may meet: one that takes everything, or one that
\* takes cap bytes and whose next send returns 0, fails, or kills the sender.
Transports ==
    { Unlimited }
    \cup { [limited |-> TRUE, cap |-> k, end |-> e] :
             k \in 0..MaxTxCut, e \in {"zero", "error", "sigpipe"} }

(***************************************************************************)
(* Request parsing and the response (child_handle_client).                 *)
(***************************************************************************)
GET == <<"G", "E", "T", " ">>
STATUS_200 == <<"2", "0", "0", " ", "O", "K">>
STATUS_404 == <<"4", "0", "4", " ", "N", "O", "T", " ", "F", "O", "U", "N", "D">>
HTTP_1_1 == <<"H", "T", "T", "P", "/", "1", ".", "1", " ">>
CONTENT_LENGTH == <<"C", "o", "n", "t", "e", "n", "t", "-", "L", "e", "n", "g", "t", "h",
                    ":", " ">>
CRLF == <<CR, LF>>

\* The delimiters given to strtok_r: " \r\n\t".
Delims == {SP, CR, LF, TAB}

RECURSIVE SkipDelims(_)
SkipDelims(s) == IF s # <<>> /\ s[1] \in Delims THEN SkipDelims(Tail(s)) ELSE s

RECURSIVE TokenOf(_)
TokenOf(s) == IF s = <<>> \/ s[1] \in Delims THEN <<>>
              ELSE <<s[1]>> \o TokenOf(Tail(s))

\* strtok_r(str, " \r\n\t", &saveptr), first call: leading delimiters are
\* skipped; NULL when nothing but delimiters is left.
StrtokR(str) ==
    LET rest == SkipDelims(CStr(str))
    IN  IF rest = <<>> THEN [null |-> TRUE, tok |-> <<>>]
        ELSE [null |-> FALSE, tok |-> TokenOf(rest)]

\* A header that lacks the empty line.
FormatHeaderUnterminated(response_status, size) ==
    HTTP_1_1 \o response_status \o CRLF \o CONTENT_LENGTH \o FormatZu(size) \o CRLF

\* asprintf(&message_buf, "HTTP/1.1 %s\r\nContent-Length: %zu\r\n\r\n", ...)
FormatHeader(response_status, size) ==
    HTTP_1_1 \o response_status \o CRLF \o CONTENT_LENGTH \o FormatZu(size) \o CRLF \o CRLF

\* A fallback that announces one byte less than it carries.
fallback_err_response_short ==
    HTTP_1_1 \o STATUS_404 \o CRLF \o CONTENT_LENGTH \o <<"1", "2">> \o CRLF \o CRLF
    \o STATUS_404

\* "HTTP/1.1 404 NOT FOUND\r\nContent-Length: 13\r\n\r\n404 NOT FOUND"
fallback_err_response ==
    HTTP_1_1 \o STATUS_404 \o CRLF \o CONTENT_LENGTH \o <<"1", "3">> \o CRLF \o CRLF
    \o STATUS_404

\* A handler that keeps the 200 status when it serves the not-found route.
HandleRequestKeeping200(in_buf, table, notfound_route) ==
    LET get_path == StrtokR(Drop(in_buf, 4))
        none == [kind |-> "fatal", exit |-> RUNNING, get_path |-> <<>>,
                 response_status |-> <<>>, found_blob |-> NullBlob, lookups |-> 0]
    IN  IF ~StrncmpEq(in_buf, GET, 4)
        THEN [none EXCEPT !.exit = EXIT_NON_GET_REQUEST]
        ELSE IF get_path.null \/ Strlen(get_path.tok) < 1 \/ get_path.tok[1] # "/"
        THEN [none EXCEPT !.exit = EXIT_WEIRD_REQUEST_PATH]
        ELSE LET first == HsearchFind(table, get_path.tok)
                 second == HsearchFind(table, CStr(notfound_route))
             IN  IF first.found
                 THEN [none EXCEPT !.kind = "respond", !.get_path = get_path.tok,
                                   !.response_status = STATUS_200,
                                   !.found_blob = first.data, !.lookups = 1]
                 ELSE IF second.found
                 THEN [none EXCEPT !.kind = "respond", !.get_path = get_path.tok,
                                   !.response_status = STATUS_200,
                                   !.found_blob = second.data, !.lookups = 2]
                 ELSE [none EXCEPT !.kind = "fallback", !.get_path = get_path.tok,
                                   !.response_status = STATUS_404, !.lookups = 2]

\* From the request buffer to the response: the method check, the path token,
\* the two lookups.  kind is "fatal" (with the exit code), "fallback" (both
\* lookups missed) or "respond".  get_path, first and second are bound as the
\* locals of the C code are: each is computed once.
HandleRequest(in_buf, table, notfound_route) ==
    LET none == [kind |-> "fatal", exit |-> RUNNING, get_path |-> <<>>,
                 response_status |-> <<>>, found_blob |-> NullBlob, lookups |-> 0]
        Lookups(tok) ==
            CHOOSE h \in
              { IF first.found
                THEN [none EXCEPT !.kind = "respond", !.get_path = tok,
                                  !.response_status = STATUS_200,
                                  !.found_blob = first.data, !.lookups = 1]
                ELSE IF second.found
                THEN [none EXCEPT !.kind = "respond", !.get_path = tok,
                                  !.response_status = STATUS_404,
                                  !.found_blob = second.data, !.lookups = 2]
                ELSE [none EXCEPT !.kind = "fallback", !.get_path = tok,
                                  !.response_status = STATUS_404, !.lookups = 2]
                : first \in {HsearchFind(table, tok)},
                  second \in {HsearchFind(table, CStr(notfound_route))} } : TRUE
    IN  CHOOSE h \in
          { IF ~StrncmpEq(in_buf, GET, 4)
            THEN [none EXCEPT !.exit = EXIT_NON_GET_REQUEST]
            ELSE IF get_path.null \/ Strlen(get_path.tok) < 1 \/ get_path.tok[1] # "/"
            THEN [none EXCEPT !.exit = EXIT_WEIRD_REQUEST_PATH]
            ELSE Lookups(get_path.tok)
            : get_path \in {StrtokR(Drop(in_buf, 4))} } : TRUE

(***************************************************************************)
(* What peers put on the wire: the bytes and what follows them ("close":   *)
(* the peer shuts its side; "error": it stays silent until the receive     *)
(* timeout, or resets).                                                    *)
(***************************************************************************)
HTail == <<SP, "H", CR, LF>>

ReqPaths ==
    { <<"/", "a">>, <<"/", "d">>, <<"/", "d", "/", "b">>, <<"/">>, <<"/", "e">>,
      <<"/", "q">>, <<"a">>, <<"/", "d", "/", "b", "b">>, <<"/", "a", NUL, "b">>,
      <<SP, "/", "a">>, <<SP, "/", "d", "/", "b", "b">> }

Peers ==
    { [data |-> GET \o p \o HTail, end |-> "close"] : p \in ReqPaths }
    \cup { [data |-> GET \o <<"/", "a">>, end |-> e] : e \in {"close", "error"} }
    \cup { [data |-> <<"G", "E", "T">>, end |-> e] : e \in {"close", "error"} }
    \cup { [data |-> <<"P", "U", "T", SP, "/", "a">> \o HTail, end |-> "close"],
            [data |-> <<"g", "e", "t", SP, "/", "a">> \o HTail, end |-> "close"],
            [data |-> <<"P", "U", "T", SP, "a">> \o HTail, end |-> "close"],
            [data |-> GET \o <<SP, SP, CR, LF, SP>>, end |-> "close"] }

\* The clients of a run that serves two connections side by side: requests
\* for two routes, for a path that is in no tree, and one that stops after
\* three bytes and lets the read fail.
FewPeers ==
    { [data |-> GET \o p \o HTail, end |-> "close"] :
        p \in {<<"/", "a">>, <<"/", "d">>, <<"/", "q">>} }
    \cup { [data |-> <<"G", "E", "T">>, end |-> "error"] }

(***************************************************************************)
(* What a run starts from: the configuration, the tree, and the bounds on  *)
(* its environment (how many connections arrive, from which peers, and     *)
(* how many bytes one read() or send() moves).                             *)
(***************************************************************************)
Scenario(root, link, tree, nf) ==
    [web_root |-> root, root_symlink |-> link, fs |-> tree, notfound_route |-> nf,
     nappend_trims |-> FALSE, slots |-> {1}, peers |-> FewPeers, chunks |-> {MaxChunk}]

\* The site is served to two connections at a time, and to one connection
\* by every peer, with its not-found route present and absent; every other
\* run accepts one connection.  The root given with a trailing slash is
\* walked by both kinds of fts; the root "/" is walked alike by both.
Scenarios ==
    { [Scenario(W_plain, FALSE, TreeSite(W_plain), nf) EXCEPT !.slots = Conns] :
        nf \in {R_e, R_q} }
    \cup
    { [Scenario(W_plain, FALSE, TreeSite(W_plain), nf) EXCEPT !.peers = Peers] :
        nf \in {R_e, R_q} }
    \cup
    { [Scenario(W_slash, FALSE, TreeSite(W_slash), R_e) EXCEPT !.nappend_trims = t] :
        t \in BOOLEAN }
    \cup
    { Scenario(W_root, FALSE, TreeSite(W_root), R_e),
      Scenario(W_rel, FALSE, TreeSite(W_rel), R_e),
      Scenario(W_dot, FALSE, TreeSite(W_dot), R_e),
      Scenario(W_plain, TRUE, TreeSite(W_plain), R_e),
      Scenario(W_plain, TRUE, TreeRoot(W_plain, "missing"), R_e),
      Scenario(W_plain, FALSE, TreeRoot(W_plain, "missing"), R_e),
      Scenario(W_plain, FALSE, TreeRoot(W_plain, "file"), R_e),
      Scenario(<<>>, FALSE, TreeEmpty(<<>>), R_e),
      Scenario(W_plain, FALSE, TreeEmpty(W_plain), R_e),
      Scenario(W_plain, FALSE, TreeXdev(W_plain), R_e),
      Scenario(W_plain, FALSE, TreeChanged(W_plain, <<"x", "y">>, 1), R_e),
      Scenario(W_plain, FALSE, TreeChanged(W_plain, <<"x">>, 2), R_e) }
    \cup { Scenario(W_plain, FALSE, TreeWith(W_plain, k), R_e) :
             k \in {"symlink", "special", "cycle", "unreadable", "nostat"} }
    \cup { Scenario(W_dot, FALSE, TreeWith(W_dot, "symlink"), R_e),
           Scenario(W_plain, FALSE, TreeDotLink(W_plain), R_e) }

(***************************************************************************)
(* The environment of main(): the user it runs as and the numeric          *)
(* settings (env.c).                                                       *)
(***************************************************************************)
\* The digit's value, 10 for a byte that is no digit.
DigitValue(ch) ==
    CASE ch = "0" -> 0 [] ch = "1" -> 1 [] ch = "2" -> 2 [] ch = "3" -> 3
      [] ch = "4" -> 4 [] ch = "5" -> 5 [] ch = "6" -> 6 [] ch = "7" -> 7
      [] ch = "8" -> 8 [] ch = "9" -> 9 [] OTHER -> 10

\* The value of a run of digits.
RECURSIVE DigitsValue(_)
DigitsValue(s) ==
    IF s = <<>> THEN 0
    ELSE 10 * DigitsValue(SubSeq(s, 1, Len(s) - 1)) + DigitValue(s[Len(s)])

\* strtonum(nptr, minval, maxval, &errstr): leading white space (the six bytes
\* of isspace) and one sign are passed over; the rest must be digits, at least
\* one; then the number is held against minval, then against maxval.  error
\* is the errstr ("none": NULL).
Strtonum(nptr, minval, maxval) ==
    LET blanks == {SP, TAB, LF, VT, FF, CR}
        RECURSIVE Strip(_)
        Strip(s) == IF s # <<>> /\ Head(s) \in blanks THEN Strip(Tail(s)) ELSE s
        body == Strip(CStr(nptr))
        negative == body # <<>> /\ Head(body) = "-"
        digits == IF body # <<>> /\ Head(body) \in {"-", "+"} THEN Tail(body) ELSE body
        number == IF negative THEN 0 - DigitsValue(digits) ELSE DigitsValue(digits)
    IN  IF digits = <<>>
           \/ \E i \in 1..Len(digits) : DigitValue(digits[i]) = 10
        THEN [error |-> "invalid", value |-> 0]
        ELSE IF number < minval THEN [error |-> "too small", value |-> 0]
        ELSE IF number > maxval THEN [error |-> "too large", value |-> 0]
        ELSE [error |-> "none", value |-> number]

\* getenv() found no such variable.
Unset == <<"unset">>

\* get_env_integer: exit is RUNNING when the call returns `value`.
GetEnvInteger(default_val, env_value, min, max) ==
    IF env_value = Unset THEN [exit |-> RUNNING, value |-> default_val]
    ELSE LET conv == Strtonum(env_value[2], min, max)
         IN  IF conv.error # "none"
             THEN [exit |-> EXIT_INVALID_NUMERIC_ENV_VAR, value |-> 0]
             ELSE [exit |-> RUNNING, value |-> conv.value]

Set(chars) == <<"set", chars>>

\* The values a numeric setting is given in the environment.
EnvValues ==
    { Unset, Set(<<"1">>), Set(<<FF, "1">>), Set(<<"0">>), Set(<<"x">>),
      Set(<<"9", "9", "9", "9", "9">>) }

OS_MAX_BACKLOG == 128

(***************************************************************************)
(* State.                                                                  *)
(***************************************************************************)
VARIABLES
    peers,           \* the peers this run's connections come from
    chunks,          \* the numbers of bytes one read() or send() may move
    web_root,        \* TH_CFG_WEB_ROOT
    root_symlink,    \* whether that path is a symbolic link
    fs,              \* the tree it names
    notfound_route,  \* TH_CFG_NOTFOUND_ROUTE
    mpc,             \* where main() is
    mexit,           \* the listener's exit code, RUNNING while it runs
    msignal,         \* the signal that killed the listener ("none": none did)
    fts,             \* the entry fts_read returned last, and FTS_SKIP on it
    table,           \* the hsearch table
    max_path_len,    \* main's max_path_len
    fatal_at,        \* the node at which the scan ended the process (0: none)
    listening,       \* the listening socket s is open
    sandboxed,       \* security_enter_sandbox has succeeded
    nappend_trims,   \* whether this C library's fts drops a trailing "/"
    slots,           \* the connection slots this run may use
    conn             \* per accepted connection: the worker and the socket

vars == <<web_root, root_symlink, fs, notfound_route, mpc, mexit, msignal, fts, table,
          max_path_len, fatal_at, listening, sandboxed, nappend_trims, slots, conn,
          peers, chunks>>

config == <<web_root, root_symlink, fs, notfound_route, nappend_trims, slots, peers,
            chunks>>
scan_vars == <<fts, table, max_path_len, fatal_at>>
serve_vars == <<listening, sandboxed, conn>>

\* A connection slot nothing was accepted on yet.  fd is the worker's copy
\* of the descriptor ns, parent_fd the listener's.  rd and sd are the loops of
\* socket_read and socket_send, asked the size the last call was given,
\* sd_size the message_size of the last socket_send.  A worker ends with an
\* exit code (pc "exited") or by a signal (pc "killed", no exit code).
IdleConn ==
    [pc |-> "idle", fd |-> "none", parent_fd |-> "none", proc |-> "none",
     peer |-> [data |-> <<>>, end |-> "close"], in_buf |-> <<>>,
     kind |-> "none", get_path |-> <<>>, response_status |-> <<>>,
     found_blob |-> NullBlob, message_buf |-> <<>>, tx |-> Unlimited, out |-> <<>>,
     exit |-> RUNNING, signal |-> "none", ev |-> <<>>,
     rd |-> ReadStart, sd |-> SendStart, sd_size |-> 0, asked |-> 0]

\* The process has been started in the environment sc: main() is entered.
StartOf(sc) ==
    /\ web_root = sc.web_root
    /\ root_symlink = sc.root_symlink
    /\ fs = sc.fs
    /\ notfound_route = sc.notfound_route
    /\ nappend_trims = sc.nappend_trims
    /\ slots = sc.slots
    /\ peers = sc.peers
    /\ chunks = sc.chunks
    /\ mpc = "sanity"
    /\ mexit = RUNNING
    /\ msignal = "none"
    /\ fts = [node |-> 0, info |-> "NONE", skip |-> FALSE]
    /\ table = <<>>
    /\ max_path_len = 0
    /\ fatal_at = 0
    /\ listening = FALSE
    /\ sandboxed = FALSE
    /\ conn = [c \in Conns |-> IdleConn]

Init == \E sc \in Scenarios : StartOf(sc)

(***************************************************************************)
(* main: scan_web_root.                                                    *)
(***************************************************************************)
\* diag_fatal in the listener process: exit(error) closes its descriptors.
MainFatal(error) ==
    /\ mpc' = "exited"
    /\ mexit' = error
    /\ listening' = FALSE
    /\ UNCHANGED msignal

\* diag_fatal inside the scan loop, at entry `node`.
ScanFatal(node, error) ==
    /\ MainFatal(error)
    /\ fatal_at' = node
    /\ UNCHANGED <<config, fts, table, max_path_len, sandboxed, conn>>

\* diag_fatal at the file `node`, after max_path_len was raised for its route.
ScanFileFatal(node, error, route_len) ==
    /\ MainFatal(error)
    /\ fatal_at' = node
    /\ max_path_len' = IF route_len > max_path_len THEN route_len ELSE max_path_len
    /\ UNCHANGED <<config, fts, table, sandboxed, conn>>

\* The listener is killed by a signal inside the scan loop, at entry `node`:
\* no exit code, no diag_fatal.
ScanKilled(node, signal) ==
    /\ mpc' = "killed"
    /\ msignal' = signal
    /\ fatal_at' = node
    /\ UNCHANGED <<config, mexit, fts, table, max_path_len, serve_vars>>

\* exit() in main before anything is set up: nothing is open.
StartupExit(error) ==
    /\ MainFatal(error)
    /\ UNCHANGED <<config, scan_vars, sandboxed, conn>>

\* security_sanity_check: getuid() == 0 ends the process.
SecuritySanityCheck ==
    /\ mpc = "sanity"
    /\ \E uid \in {0, 1} :
         IF uid = 0 THEN StartupExit(EXIT_DONT_USE_ROOT)
         ELSE /\ mpc' = "env"
              /\ UNCHANGED <<config, mexit, msignal, scan_vars, serve_vars>>

\* The four get_env_integer calls of main, in their order: the first
\* setting that is not a number within its range ends the process.
GetEnvIntegers ==
    /\ mpc = "env"
    /\ \E backlog, port, rx, tx \in EnvValues :
         LET listen_backlog == GetEnvInteger(16, backlog, 1, OS_MAX_BACKLOG)
             listen_port == GetEnvInteger(80, port, 0, 65535)
             rx_timeout == GetEnvInteger(1, rx, 1, 65535)
             tx_timeout == GetEnvInteger(1, tx, 1, 65535)
             calls == <<listen_backlog, listen_port, rx_timeout, tx_timeout>>
         IN  IF \E i \in 1..4 : calls[i].exit # RUNNING
             THEN StartupExit(calls[CHOOSE i \in 1..4 :
                                      /\ calls[i].exit # RUNNING
                                      /\ \A j \in 1..(i - 1) : calls[j].exit = RUNNING].exit)
             ELSE /\ mpc' = "scan_open"
                  /\ UNCHANGED <<config, mexit, msignal, scan_vars, serve_vars>>

\* fts_open and hcreate(1).
ScanOpen ==
    /\ mpc = "scan_open"
    /\ \E fault \in {"none", "fts_open", "hcreate"} :
         IF fault = "fts_open" \/ web_root = <<>>
         THEN ScanFatal(0, EXIT_FTS_OPEN_FAILED)
         ELSE IF fault = "hcreate"
         THEN ScanFatal(0, EXIT_HCREATE_FAILED)
         ELSE /\ mpc' = "scan_loop"
              /\ fts' = [node |-> 0, info |-> "OPEN", skip |-> FALSE]
              /\ UNCHANGED <<config, mexit, msignal, table, max_path_len, fatal_at, serve_vars>>

\* A switch whose symbolic-link case falls through to the break of FTS_DP.
ScanCaseIgnoringLinks(info) ==
    CASE info = "D" -> "dir"
      [] info \in {"DP", "SL", "SLNONE"} -> "post"
      [] info = "F" -> "file"
      [] info = "DC" -> "cycle"
      [] info \in {"ERR", "DNR", "NS"} -> "read_failed"
      [] OTHER -> "unusual"

\* The branch of the switch on p->fts_info.
ScanCase(info) ==
    CASE info = "D" -> "dir"
      [] info = "DP" -> "post"
      [] info = "F" -> "file"
      [] info \in {"SL", "SLNONE"} -> "symlink"
      [] info = "DC" -> "cycle"
      [] info \in {"ERR", "DNR", "NS"} -> "read_failed"
      [] OTHER -> "unusual"

\* p = fts_read(fts)
NextEntry(fault) == FtsRead(fs, root_symlink, fts, fault)

\* case FTS_D: a dot directory is skipped with fts_set(FTS_SKIP).
ScanDir ==
    /\ mpc = "scan_loop"
    /\ LET p == NextEntry("none") IN
         /\ p.info # "NULL" /\ ScanCase(p.info) = "dir"
         /\ fts' = [node |-> p.node, info |-> p.info, skip |-> IsDotName(FtsName(fs, p.node))]
    /\ UNCHANGED <<config, mpc, mexit, msignal, table, max_path_len, fatal_at, serve_vars>>

\* case FTS_DP.
ScanDirPost ==
    /\ mpc = "scan_loop"
    /\ LET p == NextEntry("none") IN
         /\ p.info # "NULL" /\ ScanCase(p.info) = "post"
         /\ fts' = [node |-> p.node, info |-> p.info, skip |-> FALSE]
    /\ UNCHANGED <<config, mpc, mexit, msignal, table, max_path_len, fatal_at, serve_vars>>

\* What fread delivers of a file holding `data` into a blob of `size` bytes.
FreadCount(data, size, fault) == IF fault = "fread" THEN 0 ELSE Min(size, Len(data))

\* case FTS_F: a dot file is skipped; otherwise the file is routed, read into
\* a new Blob and entered into the table.  The result of strdup is not
\* checked: when it is NULL, strlen(NULL) ends the listener with SIGSEGV.
\* max_path_len is raised before fopen, so it is on every failure after it.
ScanFile ==
    /\ mpc = "scan_loop"
    /\ LET p == NextEntry("none") IN
         /\ p.info # "NULL" /\ ScanCase(p.info) = "file"
         /\ IF IsDotName(FtsName(fs, p.node))
            THEN /\ fts' = [node |-> p.node, info |-> p.info, skip |-> FALSE]
                 /\ UNCHANGED <<config, mpc, mexit, msignal, table, max_path_len, fatal_at,
                                serve_vars>>
            ELSE \E fault \in {"none", "strdup", "fopen", "malloc", "fread", "hsearch"} :
                   LET file_path == RouteOf(FtsPath(fs, p.node, nappend_trims), Strlen(web_root))
                       route_len == Strlen(file_path)
                       blob == BlobNew(fs[p.node].st_size)
                       num_read == FreadCount(fs[p.node].data, BlobGetSize(blob), fault)
                   IN  IF fault = "strdup" THEN ScanKilled(p.node, "SIGSEGV")
                       ELSE IF fault = "fopen"
                       THEN ScanFileFatal(p.node, EXIT_FOPEN_FAILED, route_len)
                       ELSE IF fault = "malloc"
                       THEN ScanFileFatal(p.node, EXIT_MALLOC_FAILED, route_len)
                       ELSE IF num_read # fs[p.node].st_size
                       THEN ScanFileFatal(p.node, EXIT_FREAD_FAILED, route_len)
                       ELSE IF fault = "hsearch"
                       THEN ScanFileFatal(p.node, EXIT_HSEARCH_TABLE_FULL, route_len)
                       ELSE /\ fts' = [node |-> p.node, info |-> p.info, skip |-> FALSE]
                            /\ max_path_len' = IF route_len > max_path_len THEN route_len
                                               ELSE max_path_len
                            /\ table' = HsearchEnter(table, file_path,
                                            Fread(blob, fs[p.node].data, num_read),
                                            p.node)
                            /\ UNCHANGED <<config, mpc, mexit, msignal, fatal_at, serve_vars>>

\* case FTS_SL, FTS_SLNONE.
ScanSymlink ==
    /\ mpc = "scan_loop"
    /\ LET p == NextEntry("none") IN
         /\ p.info # "NULL" /\ ScanCase(p.info) = "symlink"
         /\ ScanFatal(p.node, EXIT_SYMLINK_IN_WEB_ROOT)

\* case FTS_DC.
ScanCycle ==
    /\ mpc = "scan_loop"
    /\ LET p == NextEntry("none") IN
         /\ p.info # "NULL" /\ ScanCase(p.info) = "cycle"
         /\ ScanFatal(p.node, EXIT_CYCLE_IN_WEB_ROOT)

\* case FTS_ERR, FTS_DNR, FTS_NS.
ScanReadFailed ==
    /\ mpc = "scan_loop"
    /\ LET p == NextEntry("none") IN
         /\ p.info # "NULL" /\ ScanCase(p.info) = "read_failed"
         /\ ScanFatal(p.node, EXIT_FTS_READ_FAILED)

\* case FTS_NSOK, FTS_DEFAULT, FTS_DOT, default.
ScanUnusual ==
    /\ mpc = "scan_loop"
    /\ LET p == NextEntry("none") IN
         /\ p.info # "NULL" /\ ScanCase(p.info) = "unusual"
         /\ ScanFatal(p.node, EXIT_FTS_UNUSUAL_FILE)

\* A scan that may return to main before fts_read has returned NULL.
ScanEndEarly ==
    /\ mpc = "scan_loop"
    /\ fts.info # "OPEN"
    /\ mpc' = "socket_setup"
    /\ UNCHANGED <<config, mexit, msignal, scan_vars, serve_vars>>

\* fts_read returned NULL, at the end of the walk or in the middle of it: the
\* errno check, fts_close, return to main.
ScanEnd ==
    /\ mpc = "scan_loop"
    /\ \E fault \in {"none", "errno"}, closing \in {"none", "fts_close"} :
         LET p == NextEntry(fault) IN
           /\ p.info = "NULL"
           /\ IF p.errno THEN ScanFatal(0, EXIT_FTS_READ_FAILED)
              ELSE IF closing = "fts_close" THEN ScanFatal(0, EXIT_FTS_CLOSE_FAILED)
              ELSE /\ mpc' = "socket_setup"
                   /\ UNCHANGED <<config, mexit, msignal, scan_vars, serve_vars>>

(***************************************************************************)
(* main: socket_server_setup, security_enter_sandbox, the accept loop.     *)
(***************************************************************************)
\* socket(), bind(), listen().
SocketServerSetup ==
    /\ mpc = "socket_setup"
    /\ \E fault \in {"none", "socket", "bind", "listen"} :
         IF fault = "socket" THEN MainFatal(EXIT_SOCKET_FAILED) /\ UNCHANGED sandboxed
         ELSE IF fault = "bind" THEN MainFatal(EXIT_BIND_FAILED) /\ UNCHANGED sandboxed
         ELSE IF fault = "listen" THEN MainFatal(EXIT_LISTEN_FAILED) /\ UNCHANGED sandboxed
         ELSE /\ listening' = TRUE
              /\ mpc' = "sandbox"
              /\ UNCHANGED <<mexit, msignal, sandboxed>>
    /\ UNCHANGED <<config, scan_vars, conn>>

\* sandbox_init().
SecurityEnterSandbox ==
    /\ mpc = "sandbox"
    /\ \E fault \in {"none", "sandbox_init"} :
         IF fault = "sandbox_init" THEN MainFatal(EXIT_SANDBOX_FAILED) /\ UNCHANGED sandboxed
         ELSE /\ sandboxed' = TRUE
              /\ mpc' = "accept"
              /\ UNCHANGED <<mexit, msignal, listening>>
    /\ UNCHANGED <<config, scan_vars, conn>>

IdleSlots == { c \in slots : conn[c].pc = "idle" }

\* accept() failed: logged, and the loop goes on.
AcceptFailed ==
    /\ mpc = "accept"
    /\ UNCHANGED vars

\* A handler that runs in the listener process itself.
HandlerInListener == "listener"

\* The process child_handle_client runs in: the branch handler_pid == 0.
HandlerProcess == "child"

\* A parent that keeps its copy of ns.
ParentKeepsDescriptor == "open"

\* The parent's copy of ns after fork(): close(ns).
ParentAfterFork == "closed"

\* accept() returned ns and fork() succeeded: the child starts with its copy
\* of ns while the parent still holds its own.
AcceptFork ==
    /\ mpc = "accept"
    /\ IdleSlots # {}
    /\ LET c == SetMin(IdleSlots) IN
         conn' = [conn EXCEPT ![c] = [@ EXCEPT !.pc = "read", !.fd = "open",
                                               !.parent_fd = "open",
                                               !.proc = HandlerProcess]]
    /\ mpc' = "close_ns"
    /\ UNCHANGED <<config, mexit, msignal, scan_vars, listening, sandboxed>>

\* The connection accept() returned last.
NewestConn ==
    CHOOSE c \in Conns :
      conn[c].pc # "idle" /\ \A d \in Conns : conn[d].pc # "idle" => d <= c

\* The parent's branch after fork(): close(ns), and back to the loop in main.
ParentCloseNs ==
    /\ mpc = "close_ns"
    /\ conn' = [conn EXCEPT ![NewestConn] = [@ EXCEPT !.parent_fd = ParentAfterFork]]
    /\ mpc' = "accept"
    /\ UNCHANGED <<config, mexit, msignal, scan_vars, listening, sandboxed>>

\* A listener that closes the connection it could not fork for and goes on
\* accepting.
AcceptForkFailedGoesOn ==
    /\ mpc = "accept"
    /\ IdleSlots # {}
    /\ LET c == SetMin(IdleSlots) IN
         conn' = [conn EXCEPT ![c] = [@ EXCEPT !.pc = "dropped", !.parent_fd = "closed"]]
    /\ UNCHANGED <<config, mpc, mexit, msignal, scan_vars, listening, sandboxed>>

\* accept() returned ns and fork() failed: close(ns), close(s), diag_fatal.
AcceptForkFailed ==
    /\ mpc = "accept"
    /\ IdleSlots # {}
    /\ LET c == SetMin(IdleSlots) IN
         conn' = [conn EXCEPT ![c] = [@ EXCEPT !.pc = "dropped", !.parent_fd = "closed"]]
    /\ MainFatal(EXIT_FORK_FAILED)
    /\ UNCHANGED <<config, scan_vars, sandboxed>>

(***************************************************************************)
(* The worker: child_handle_client, then exit(EXIT_OK).                    *)
(***************************************************************************)
\* exit(code) of the process handling connection c: its descriptors close.
\* Only a handler running in the listener process would take the listener
\* with it.
ExitWorker(c, w, code, events) ==
    /\ conn' = [conn EXCEPT ![c] = [w EXCEPT !.pc = "exited", !.exit = code,
                                             !.fd = "closed",
                                             !.ev = @ \o events \o <<"exit">>]]
    /\ IF w.proc = "child" THEN UNCHANGED <<mpc, mexit, msignal, listening>>
       ELSE MainFatal(code)

\* The process handling connection c is killed by a signal: no exit code, no
\* handler of the program runs, the kernel closes its descriptors.
KillWorker(c, w, signal) ==
    /\ conn' = [conn EXCEPT ![c] = [w EXCEPT !.pc = "killed", !.signal = signal,
                                             !.fd = "closed",
                                             !.ev = @ \o <<"killed">>]]
    /\ IF w.proc = "child" THEN UNCHANGED <<mpc, mexit, msignal, listening>>
       ELSE mpc' = "killed" /\ msignal' = signal /\ listening' = FALSE /\ UNCHANGED mexit

\* The worker goes on.
StepWorker(c, w) ==
    /\ conn' = [conn EXCEPT ![c] = w]
    /\ UNCHANGED <<mpc, mexit, msignal, listening>>

\* A read bound without the room for the byte that follows the path.
MaxSizeTight(path_len) == path_len + 4

\* const ssize_t max_size = loop_data.max_path_len + 5
MaxSize(path_len) == path_len + 5

\* From the method check to asprintf.
ChildParse(c) ==
    /\ conn[c].pc = "parse"
    /\ \E h \in {HandleRequest(conn[c].in_buf, table, notfound_route)} :
       LET w == [conn[c] EXCEPT !.kind = h.kind, !.get_path = h.get_path,
                                !.response_status = h.response_status,
                                !.found_blob = h.found_blob,
                                !.ev = @ \o [i \in 1..h.lookups |-> "lookup"]]
       IN  IF h.kind = "fatal" THEN ExitWorker(c, w, h.exit, <<>>)
           ELSE IF h.kind = "fallback"
           THEN StepWorker(c, [w EXCEPT !.pc = "send_fallback",
                                        !.message_buf = fallback_err_response])
           ELSE \E fault \in {"none", "asprintf"} :
                  IF fault = "asprintf" THEN ExitWorker(c, w, EXIT_MALLOC_FAILED, <<>>)
                  ELSE StepWorker(c, [w EXCEPT
                         !.pc = "send_header",
                         !.message_buf = FormatHeader(h.response_status,
                                                      BlobGetSize(h.found_blob))])
    /\ UNCHANGED <<config, scan_vars, sandboxed>>

\* shutdown, close, diag_fatal(EXIT_NOTFOUND_NOT_FOUND).
ChildCloseFallback(c) ==
    /\ conn[c].pc = "close_fallback"
    /\ ExitWorker(c, conn[c], EXIT_NOTFOUND_NOT_FOUND, <<"shutdown", "close">>)
    /\ UNCHANGED <<config, scan_vars, sandboxed>>

\* shutdown, close, return; then exit(EXIT_OK) in accept_next_connection.
ChildClose(c) ==
    /\ conn[c].pc = "close"
    /\ ExitWorker(c, conn[c], EXIT_OK, <<"shutdown", "close">>)
    /\ UNCHANGED <<config, scan_vars, sandboxed>>

(***************************************************************************)
(* The worker's two loops go call by call: every read() and every send()   *)
(* is a step of its own, between which the listener and the other workers  *)
(* run.                                                                    *)
(***************************************************************************)
\* The two setsockopt calls, the malloc of socket_read, whose result is not
\* checked, and one iteration of the loop of socket_read.
ChildReadCall(c) ==
    /\ conn[c].pc = "read"
    /\ \E peer \in IF conn[c].rd.calls > 0 THEN {conn[c].peer} ELSE peers,
          chunk \in chunks,
          fault \in IF conn[c].rd.calls > 0 THEN {"none"}
                    ELSE {"none", "setsockopt", "malloc"},
          max_size \in {MaxSize(max_path_len)} :
       \E st \in {IF fault = "malloc" THEN [conn[c].rd EXCEPT !.buffer = "NULL"]
                   ELSE conn[c].rd} :
       \E asked \in {ReadAsk(max_size, st.received)} :
       \E n \in {ReadResult(Len(peer.data) - st.received, asked, chunk, peer.end,
                             st.buffer)} :
       \E after \in {SocketReadStep(st, n,
                                     IF n > 0 THEN SubSeq(peer.data, st.received + 1,
                                                          st.received + n)
                                     ELSE <<>>,
                                     5, max_size)} :
       \E w \in {[conn[c] EXCEPT !.peer = peer, !.rd = after, !.asked = asked]} :
         IF fault = "setsockopt"
         THEN ExitWorker(c, conn[c], EXIT_SETSOCKOPT_FAILED, <<>>)
         ELSE IF after.status = "fatal"
         THEN ExitWorker(c, w, after.exit, <<"read", "close">>)
         ELSE IF after.status = "killed"
         THEN KillWorker(c, w, "SIGSEGV")
         ELSE IF after.status = "done"
         THEN StepWorker(c, [w EXCEPT !.pc = "parse", !.in_buf = after.in_buf,
                                      !.ev = @ \o <<"read">>])
         ELSE StepWorker(c, w)
    /\ UNCHANGED <<config, scan_vars, sandboxed>>

\* The socket_send call the worker is at: its message, its message_size and
\* where the worker goes on when it returns.
SendMessage(w) ==
    IF w.pc = "send_body" THEN BlobGetData(w.found_blob) ELSE w.message_buf

SendSize(w) ==
    IF w.pc = "send_body" THEN BlobGetSize(w.found_blob) ELSE Strlen(w.message_buf)

SendNext(w) ==
    CASE w.pc = "send_fallback" -> "close_fallback"
      [] w.pc = "send_header" -> "send_body"
      [] w.pc = "send_body" -> "close"

\* A send whose bytes reach every connection that is under way, as over a
\* descriptor the workers share.
ChildSendCallShared(c) ==
    /\ conn[c].pc \in {"send_fallback", "send_header", "send_body"}
    /\ \E first \in {conn[c].sd.status # "loop" \/ conn[c].sd.calls = 0} :
       \E st \in {IF first THEN SendStart ELSE conn[c].sd},
          message_size \in {IF first THEN SendSize(conn[c]) ELSE conn[c].sd_size},
          tx \in {Unlimited}, chunk \in chunks :
       \E asked \in {SendAsk(message_size, st.sent)} :
       \E after \in {SocketSendStep(st, SendResult(asked, st.sent, chunk, tx).bytes,
                                     SendMessage(conn[c]), message_size)} :
       \E bytes \in {SubSeq(after.wire, Len(st.wire) + 1, Len(after.wire))} :
       \E shared \in {[d \in Conns |->
                         IF conn[d].fd = "open" THEN [conn[d] EXCEPT !.out = @ \o bytes]
                         ELSE conn[d]]} :
       \E w \in {[shared[c] EXCEPT !.tx = tx, !.sd = after, !.asked = asked,
                                   !.sd_size = message_size, !.rd = ReadStart]} :
         /\ conn' = [shared EXCEPT ![c] =
                       IF after.status = "done"
                       THEN [w EXCEPT !.pc = SendNext(conn[c]), !.ev = @ \o <<"send">>]
                       ELSE w]
         /\ UNCHANGED <<mpc, mexit, msignal, listening>>
    /\ UNCHANGED <<config, scan_vars, sandboxed>>

\* One iteration of the loop of socket_send.  The loop of socket_read is
\* long over: its locals are gone.
ChildSendCall(c) ==
    /\ conn[c].pc \in {"send_fallback", "send_header", "send_body"}
    /\ \E first \in {conn[c].sd.status # "loop" \/ conn[c].sd.calls = 0} :
       \E st \in {IF first THEN SendStart ELSE conn[c].sd},
          message_size \in {IF first THEN SendSize(conn[c]) ELSE conn[c].sd_size},
          tx \in IF first THEN Transports ELSE {conn[c].tx},
          chunk \in chunks :
       \E asked \in {SendAsk(message_size, st.sent)} :
       \E r \in {SendResult(asked, st.sent, chunk, tx)} :
       \E after \in {IF r.signal # "none"
                      THEN [st EXCEPT !.calls = @ + 1, !.status = "killed"]
                      ELSE SocketSendStep(st, r.bytes, SendMessage(conn[c]),
                                          message_size)} :
       \E w \in {[conn[c] EXCEPT !.tx = tx, !.sd = after, !.asked = asked,
                                 !.sd_size = message_size, !.rd = ReadStart,
                                 !.out = @ \o SubSeq(after.wire, Len(st.wire) + 1,
                                                     Len(after.wire))]} :
         IF r.signal # "none" THEN KillWorker(c, w, r.signal)
         ELSE IF after.status = "fatal" THEN ExitWorker(c, w, after.exit, <<"send">>)
         ELSE IF after.status = "done"
         THEN StepWorker(c, [w EXCEPT !.pc = SendNext(conn[c]), !.ev = @ \o <<"send">>])
         ELSE StepWorker(c, w)
    /\ UNCHANGED <<config, scan_vars, sandboxed>>

Worker(c) ==
    \/ ChildReadCall(c)
    \/ ChildParse(c)
    \/ ChildSendCall(c)
    \/ ChildCloseFallback(c)
    \/ ChildClose(c)

Startup ==
    \/ SecuritySanityCheck
    \/ GetEnvIntegers

Scan ==
    \/ ScanOpen
    \/ ScanDir
    \/ ScanDirPost
    \/ ScanFile
    \/ ScanSymlink
    \/ ScanCycle
    \/ ScanReadFailed
    \/ ScanUnusual
    \/ ScanEnd

Listener ==
    \/ SocketServerSetup
    \/ SecurityEnterSandbox
    \/ AcceptFailed
    \/ AcceptFork
    \/ ParentCloseNs
    \/ AcceptForkFailed

Next ==
    \/ Startup
    \/ Scan
    \/ Listener
    \/ \E c \in Conns : Worker(c)

Spec == Init /\ [][Next]_vars

\* The processes are scheduled: a call of a worker returns, and the listener
\* gets to close its copy of a descriptor.  The site whose not-found route is
\* missing is served to one connection, with transfers of every size up to
\* MaxChunk, and to two connections at a time by two peers; the other runs
\* go as far as the accept loop.
PeerOf(path) == [data |-> GET \o path \o HTail, end |-> "close"]

ScenariosByCall ==
    { [sc EXCEPT !.slots = {}] : sc \in Scenarios }
    \cup
    { [Scenario(W_plain, FALSE, TreeSite(W_plain), R_q) EXCEPT
         !.peers = FewPeers \cup {PeerOf(<<"/", "d", "/", "b">>)},
         !.chunks = 1..MaxChunk],
      [Scenario(W_plain, FALSE, TreeSite(W_plain), R_q) EXCEPT
         !.slots = Conns,
         !.peers = {PeerOf(<<"/", "a">>), [data |-> <<"G", "E", "T">>, end |-> "error"]}] }

InitByCall == \E sc \in ScenariosByCall : StartOf(sc)

SpecByCall ==
    /\ InitByCall /\ [][Next]_vars
    /\ \A c \in Conns : WF_vars(Worker(c))
    /\ WF_vars(ParentCloseNs)

(***************************************************************************)
(* Reference definitions: what the properties below speak about, written   *)
(* from the tree and the wire format rather than from the program.         *)
(***************************************************************************)
StartsWithDot(name) == name # <<>> /\ Head(name) = "."

\* The proper ancestors of a node, the root included.
RECURSIVE Ancestors(_)
Ancestors(n) == IF fs[n].parent = 0 THEN {}
                ELSE {fs[n].parent} \cup Ancestors(fs[n].parent)

\* The node's own name, or that of an ancestor below the root, starts with '.'.
DotBelowRoot(n) == \E a \in ({n} \cup Ancestors(n)) \ {1} : StartsWithDot(fs[a].name)

\* The last component of a path: what follows its last "/".
LastComponent(path) ==
    LET slashes == { i \in 1..Len(path) : path[i] = "/" }
    IN  IF slashes = {} THEN path
        ELSE SubSeq(path, (CHOOSE i \in slashes : \A j \in slashes : j <= i) + 1, Len(path))

\* The name the walk sees an entry under; the root goes by the last
\* component of the configured path.
EntryName(a) == IF fs[a].parent = 0 THEN LastComponent(fs[a].name) ELSE fs[a].name

\* The walk gets to the node: every directory above it is a plain directory
\* the walk descends into.
Reached(n) == \A a \in Ancestors(n) : fs[a].kind = "dir" /\ ~StartsWithDot(EntryName(a))

\* The web root is configured with a trailing "/" that fts drops when it
\* builds the paths below the root: every fts does for the root "/", and
\* the C library that trims does for every root.
SlashCollapsed ==
    /\ web_root # <<>> /\ web_root[Len(web_root)] = "/"
    /\ nappend_trims \/ web_root = W_root

\* The node's path relative to the root: "/" and a name per level.
RECURSIVE RelPath(_)
RelPath(n) == IF fs[n].parent = 0 THEN <<>>
              ELSE RelPath(fs[n].parent) \o <<"/">> \o fs[n].name

PlainFiles == { n \in 2..Len(fs) : fs[n].kind = "file" /\ ~DotBelowRoot(n) }

IndexFiles == { n \in PlainFiles : fs[n].name = N_index }

\* scan_web_root has returned to main.
ScanDone ==
    \/ mpc \in {"socket_setup", "sandbox", "accept", "close_ns"}
    \/ mpc = "exited" /\ mexit \in {EXIT_SOCKET_FAILED, EXIT_BIND_FAILED, EXIT_LISTEN_FAILED,
                                    EXIT_SANDBOX_FAILED, EXIT_FORK_FAILED}

Keys == { table[i].key : i \in 1..Len(table) }

IsPrefix(a, b) == Len(a) <= Len(b) /\ SubSeq(b, 1, Len(a)) = a

\* A decimal numeral, for sizes below 100.
Numeral(n) ==
    LET ds == <<"0", "1", "2", "3", "4", "5", "6", "7", "8", "9">>
    IN  IF n < 10 THEN <<ds[n + 1]>> ELSE <<ds[(n \div 10) + 1], ds[(n % 10) + 1]>>

\* The response header of the wire protocol.
WireHeader(status, n) ==
    <<"H", "T", "T", "P", "/", "1", ".", "1", " ">> \o status \o <<CR, LF>>
    \o <<"C", "o", "n", "t", "e", "n", "t", "-", "L", "e", "n", "g", "t", "h", ":", " ">>
    \o Numeral(n) \o <<CR, LF, CR, LF>>

OK_200 == <<"2", "0", "0", " ", "O", "K">>
NOT_FOUND_404 == <<"4", "0", "4", " ", "N", "O", "T", " ", "F", "O", "U", "N", "D">>

\* The workers that have been forked.
Workers == { c \in Conns : conn[c].pc \notin {"idle", "dropped"} }

\* The worker's process is no more: it has exited or a signal has killed it.
Terminated(c) == conn[c].pc \in {"exited", "killed"}

\* The step is one of the process that handles connection c (the listener's
\* close of its own copy of the descriptor is not).
WorkerStepped(c) ==
    /\ conn[c].pc \notin {"idle", "dropped", "exited", "killed"}
    /\ [conn'[c] EXCEPT !.parent_fd = conn[c].parent_fd] # conn[c]

\* The listener is in the loop of main that calls accept_next_connection.
InAcceptLoop == mpc \in {"accept", "close_ns"}

\* The codes main exits with before the scan.
StartupCodes == {EXIT_DONT_USE_ROOT, EXIT_INVALID_NUMERIC_ENV_VAR}

(***************************************************************************)
(* C1.  After a successful scan every regular file below the root with no  *)
(* dot name on its path (the root's own name apart) has its route in the   *)
(* table, with a blob of the file's size and bytes, and a worker that      *)
(* looked that route up and finished answered 200 OK with that length and  *)
(* body.  An index.html may be routed at its directory with or without the *)
(* trailing slash.  The statement fails: see the divergence recorded for   *)
(* C1.                                                                     *)
(***************************************************************************)
RoutesFor(n) ==
    IF fs[n].name # N_index THEN {RelPath(n)}
    ELSE IF fs[n].parent = 1 THEN {<<"/">>}
    ELSE {RelPath(fs[n].parent), RelPath(fs[n].parent) \o <<"/">>}

C1_PlainFilesServed ==
    ScanDone =>
      \A n \in PlainFiles :
        \E i \in 1..Len(table) :
          /\ table[i].key \in RoutesFor(n)
          /\ table[i].data.length = fs[n].st_size
          /\ table[i].data.data = fs[n].data
          /\ \A c \in Workers :
               conn[c].get_path = table[i].key /\ conn[c].exit = EXIT_OK
                 => conn[c].out = WireHeader(OK_200, fs[n].st_size) \o fs[n].data

(***************************************************************************)
(* C2.  As claimed: every index.html the walk reaches is routed at its     *)
(* directory's path with the trailing slash kept ("/d/"), "/" for the      *)
(* root.  This fails; what holds is the same with the slash stripped.      *)
(***************************************************************************)
ReachedIndexFiles == { n \in IndexFiles : Reached(n) }

C2_IndexRouteKeepsSlash ==
    ScanDone =>
      \A n \in ReachedIndexFiles :
        (IF fs[n].parent = 1 THEN <<"/">> ELSE RelPath(fs[n].parent) \o <<"/">>) \in Keys

\* C2, amended: after a successful scan every index.html the walk reaches is
\* routed at its directory's path without a trailing slash ("/d"), "/" for the
\* root, and never with one; the entry holds the file's bytes, and a worker
\* that looked the route up and finished answered 200 OK with them.  Where
\* the root's trailing "/" was collapsed the route has lost its leading "/"
\* too ("d", and "index.html" for the root's), and no worker looks it up.
C2_IndexRouteStripsSlash ==
    ScanDone =>
      \A n \in ReachedIndexFiles :
        LET dir == fs[n].parent
            route == IF SlashCollapsed
                     THEN IF dir = 1 THEN N_index ELSE Tail(RelPath(dir))
                     ELSE IF dir = 1 THEN <<"/">> ELSE RelPath(dir)
            bytes == SubSeq(fs[n].data, 1, fs[n].st_size)
        IN  /\ route \in Keys
            /\ dir # 1 => RelPath(dir) \o <<"/">> \notin Keys
            /\ \A i \in 1..Len(table) :
                 table[i].key = route => /\ table[i].src = n
                                         /\ table[i].data.length = fs[n].st_size
                                         /\ table[i].data.data = bytes
            /\ \A c \in Workers :
                 IF SlashCollapsed THEN conn[c].get_path # route
                 ELSE conn[c].get_path = route /\ conn[c].exit = EXIT_OK
                        => conn[c].out = WireHeader(OK_200, fs[n].st_size) \o bytes

\* C2, witness: the scan is done, d/index.html is routed at "/d", and a worker
\* has served it.
C2_Witness ==
    /\ ScanDone
    /\ ~SlashCollapsed
    /\ \E n \in ReachedIndexFiles :
         /\ fs[n].parent # 1
         /\ RelPath(fs[n].parent) \in Keys
         /\ \E c \in Workers : /\ conn[c].get_path = RelPath(fs[n].parent)
                               /\ conn[c].exit = EXIT_OK

(***************************************************************************)
(* C3.  At every moment of the scan and after it, no table entry comes     *)
(* from a file whose name starts with '.' or that lies below a directory   *)
(* whose name starts with '.', however deep under plain directories; the   *)
(* walk never enters such a directory, and the scan never aborts at a dot  *)
(* file or dot directory.                                                  *)
(***************************************************************************)
DotAbove(n) == \E a \in Ancestors(n) : StartsWithDot(EntryName(a))

C3_NoDotRoutes ==
    /\ \A i \in 1..Len(table) :
         /\ ~StartsWithDot(EntryName(table[i].src))
         /\ ~DotAbove(table[i].src)
    /\ fts.node # 0 => ~DotAbove(fts.node)
    /\ fatal_at # 0 =>
         /\ ~DotAbove(fatal_at)
         /\ fs[fatal_at].kind \in {"file", "dir"} => ~StartsWithDot(EntryName(fatal_at))

\* C3, witness: the scan has completed over a tree that holds a dot file, and
\* a dot directory with a file in it under a plain root, and has routed the
\* other files.
C3_Witness ==
    /\ ScanDone
    /\ table # <<>>
    /\ \E n \in 2..Len(fs) :
         fs[n].kind = "file" /\ StartsWithDot(fs[n].name) /\ Reached(n)
    /\ \E n \in 2..Len(fs) :
         fs[n].kind = "file" /\ DotAbove(n) /\ ~StartsWithDot(EntryName(1))

(***************************************************************************)
(* C4.  As claimed: a tree that holds a symbolic link, a directory cycle   *)
(* or a special file anywhere never gets past the scan: no listening       *)
(* socket, no worker, and the process ends, if it does, with a code of the *)
(* scan (or, before the scan, with one of main's two own).  This fails for *)
(* an entry inside a dot directory.                                        *)
(***************************************************************************)
Offending == { n \in 1..Len(fs) : fs[n].kind \in {"symlink", "cycle", "special"} }

ScanFatalCodes ==
    {EXIT_FTS_OPEN_FAILED, EXIT_FTS_CLOSE_FAILED, EXIT_FTS_READ_FAILED,
     EXIT_SYMLINK_IN_WEB_ROOT, EXIT_FTS_UNUSUAL_FILE, EXIT_CYCLE_IN_WEB_ROOT,
     EXIT_HCREATE_FAILED, EXIT_FOPEN_FAILED, EXIT_MALLOC_FAILED, EXIT_FREAD_FAILED,
     EXIT_HSEARCH_TABLE_FULL}

NeverServes ==
    /\ ~ScanDone
    /\ ~listening
    /\ Workers = {}
    /\ mpc = "exited" => mexit \in ScanFatalCodes \cup StartupCodes

C4_AnyOffenderAborts == Offending # {} => NeverServes

\* C4, amended: a tree with a symbolic link, a directory cycle or a special
\* file that the walk reaches (one not inside a directory that is skipped for
\* its dot name or lies on another file system) never gets past the scan: no
\* listening socket is created and no worker is ever forked; when the scan
\* stops at such an entry the exit code is the one of its kind.
C4_ReachedOffenderAborts ==
    /\ (\E n \in Offending : Reached(n)) => NeverServes
    /\ fatal_at # 0 /\ fatal_at \in Offending =>
         mexit = CASE fs[fatal_at].kind = "symlink" -> EXIT_SYMLINK_IN_WEB_ROOT
                   [] fs[fatal_at].kind = "cycle" -> EXIT_CYCLE_IN_WEB_ROOT
                   [] OTHER -> EXIT_FTS_UNUSUAL_FILE

\* C4, witness: the scan has stopped at a symbolic link nested in the tree.
C4_Witness ==
    /\ mpc = "exited"
    /\ mexit = EXIT_SYMLINK_IN_WEB_ROOT
    /\ fatal_at > 1
    /\ fs[fatal_at].kind = "symlink"

(***************************************************************************)
(* C5.  As claimed: when the web-root path is a symbolic link the scan     *)
(* never completes and routes nothing.  This fails: the link is followed.  *)
(***************************************************************************)
C5_RootLinkAborts == root_symlink => ~ScanDone /\ table = <<>>

\* C5, amended: a web-root path that is a symbolic link is followed and its
\* target scanned like a root given directly: the scan never stops at the
\* root for being a link, and once it is done every plain file the walk
\* reaches is routed.  Only a link whose target does not exist stops the
\* scan, at the root, with the symbolic-link code.
C5_RootLinkFollowed ==
    root_symlink =>
      IF fs[1].kind = "missing"
      THEN /\ ~ScanDone
           /\ table = <<>>
           /\ fatal_at # 0 => fatal_at = 1 /\ mexit = EXIT_SYMLINK_IN_WEB_ROOT
      ELSE /\ ~(fatal_at = 1 /\ mexit = EXIT_SYMLINK_IN_WEB_ROOT)
           /\ ScanDone /\ ~SlashCollapsed =>
                \A n \in PlainFiles : Reached(n) => RoutesFor(n) \cap Keys # {}

\* C5, witness: the root is a symbolic link to a directory, the scan is done
\* and has routed the files of the target.
C5_Witness ==
    /\ root_symlink
    /\ fs[1].kind = "dir"
    /\ ScanDone
    /\ table # <<>>

(***************************************************************************)
(* Connections.                                                            *)
(***************************************************************************)
\* The workers whose request named a path: the lookups have been made.
Looked == { c \in Workers : conn[c].kind \in {"respond", "fallback"} }

\* The bytes the table holds for a route.
BytesAt(route) == (CHOOSE e \in { table[i] : i \in 1..Len(table) } : e.key = route).data.data

Count(seq, x) == Cardinality({ i \in 1..Len(seq) : seq[i] = x })

EndsWith(seq, tail) ==
    Len(seq) >= Len(tail) /\ SubSeq(seq, Len(seq) - Len(tail) + 1, Len(seq)) = tail

\* The codes a worker's transport failures end it with.
IoCodes == {EXIT_SOCKET_SEND_FAILED, EXIT_SOCKET_WEIRD_TX_LENGTH}

\* The listener has reached the accept loop and nothing but a failed fork
\* has ended it.
ListenerUnharmed ==
    sandboxed =>
      \/ InAcceptLoop /\ mexit = RUNNING /\ listening
      \/ mpc = "exited" /\ mexit = EXIT_FORK_FAILED

(***************************************************************************)
(* C6.  Whatever the connections do, the listener that has reached the     *)
(* accept loop stays in it, listening and ready to fork for the next       *)
(* connection, unless fork itself fails; and a step of one worker, its     *)
(* exit or its death included, changes neither the listener nor any other  *)
(* connection.                                                             *)
(***************************************************************************)
WorkerStepIsLocal ==
    \A c \in Conns :
      WorkerStepped(c)
        => /\ UNCHANGED <<mpc, mexit, listening, sandboxed, table, max_path_len>>
           /\ conn'[c].parent_fd = conn[c].parent_fd
           /\ \A d \in Conns \ {c} : conn'[d] = conn[d]

AcceptReady ==
    mpc = "accept" /\ IdleSlots # {} => ENABLED AcceptFork

C6_FailuresStayLocal ==
    /\ [](ListenerUnharmed /\ AcceptReady)
    /\ [][WorkerStepIsLocal]_vars

\* C6, witness: one connection's worker has died of a connection-scoped
\* failure, the listener is still accepting, and another connection has been
\* served to the end.
C6_Witness ==
    /\ mpc = "accept" /\ listening
    /\ \E c, d \in Conns :
         /\ c < d
         /\ conn[c].pc = "exited"
         /\ conn[c].exit \in {EXIT_NON_GET_REQUEST, EXIT_WEIRD_REQUEST_PATH,
                              EXIT_SOCKET_WEIRD_RX_LENGTH, EXIT_SOCKET_READ_FAILED,
                              EXIT_SOCKET_SEND_FAILED, EXIT_NOTFOUND_NOT_FOUND}
         /\ conn[d].pc = "exited"
         /\ conn[d].exit = EXIT_OK

(***************************************************************************)
(* C7.  A worker whose requested path is not in the table while the        *)
(* not-found route is answers with status 404 NOT FOUND, the not-found     *)
(* route's blob as body and its length as Content-Length, and ends with    *)
(* EXIT_OK unless allocating the header or the transport fails.            *)
(***************************************************************************)
C7_NotFoundRouteServed ==
    \A c \in Looked :
      conn[c].get_path \notin Keys /\ notfound_route \in Keys =>
        /\ conn[c].kind = "respond"
        /\ conn[c].response_status = NOT_FOUND_404
        /\ conn[c].exit \in {RUNNING, EXIT_OK, EXIT_MALLOC_FAILED} \cup IoCodes
        /\ IsPrefix(conn[c].out, WireHeader(NOT_FOUND_404, Len(BytesAt(notfound_route)))
                                   \o BytesAt(notfound_route))
        /\ conn[c].exit = EXIT_OK =>
             conn[c].out = WireHeader(NOT_FOUND_404, Len(BytesAt(notfound_route)))
                             \o BytesAt(notfound_route)

\* C7, witness: a worker has missed, found the not-found route, sent it and
\* finished normally.
C7_Witness ==
    \E c \in Looked :
      /\ conn[c].get_path \notin Keys
      /\ notfound_route \in Keys
      /\ conn[c].exit = EXIT_OK
      /\ Len(conn[c].out) > 0

(***************************************************************************)
(* C8.  A worker whose requested path and not-found route are both absent  *)
(* from the table sends the fixed response (404 NOT FOUND, Content-Length  *)
(* 13, body "404 NOT FOUND") and nothing else, then shuts down and closes  *)
(* the connection, and only then exits with EXIT_NOTFOUND_NOT_FOUND; the   *)
(* listener is not ended by it.                                            *)
(***************************************************************************)
FixedFallback == WireHeader(NOT_FOUND_404, 13) \o NOT_FOUND_404

C8_FallbackThenExit ==
    /\ \A c \in Looked :
         conn[c].get_path \notin Keys /\ notfound_route \notin Keys =>
           /\ conn[c].kind = "fallback"
           /\ conn[c].exit \in {RUNNING, EXIT_NOTFOUND_NOT_FOUND} \cup IoCodes
           /\ IsPrefix(conn[c].out, FixedFallback)
           /\ conn[c].pc = "close_fallback" =>
                conn[c].out = FixedFallback /\ conn[c].fd = "open"
           /\ conn[c].exit = EXIT_NOTFOUND_NOT_FOUND =>
                /\ conn[c].out = FixedFallback
                /\ conn[c].ev = <<"read", "lookup", "lookup", "send", "shutdown", "close",
                                  "exit">>
                /\ conn[c].fd = "closed"
    /\ \A c \in Workers :
         conn[c].exit = EXIT_NOTFOUND_NOT_FOUND =>
           /\ c \in Looked
           /\ conn[c].get_path \notin Keys
           /\ notfound_route \notin Keys
           /\ ListenerUnharmed

\* C8, witness: a worker has ended with EXIT_NOTFOUND_NOT_FOUND while the
\* listener goes on accepting.
C8_Witness ==
    /\ mpc = "accept"
    /\ \E c \in Workers :
         /\ conn[c].exit = EXIT_NOTFOUND_NOT_FOUND
         /\ conn[c].out = FixedFallback

(***************************************************************************)
(* C9.  What a worker has written is at every moment a prefix of one       *)
(* response: "HTTP/1.1 <status>\r\nContent-Length: <n>\r\n\r\n" and n body *)
(* bytes, with <status> "200 OK" or "404 NOT FOUND"; the body starts only  *)
(* after the whole header; a worker that is done sending has written the   *)
(* header and exactly n body bytes, the blob it found.                     *)
(***************************************************************************)
Statuses == {OK_200, NOT_FOUND_404}

\* out is the start of a response with this status and length.
StartsResponse(out, status, n) ==
    LET header == WireHeader(status, n)
    IN  \/ IsPrefix(out, header)
        \/ IsPrefix(header, out) /\ Len(out) - Len(header) <= n

\* out is a whole response with this status and body.
IsResponse(out, status, body) == out = WireHeader(status, Len(body)) \o body

C9_ResponseFormat ==
    \A c \in Workers :
      LET out == conn[c].out IN
        /\ \E status \in Statuses, n \in 0..Len(out) : StartsResponse(out, status, n)
        /\ conn[c].pc = "send_header" =>
             \E status \in Statuses :
               IsPrefix(out, WireHeader(status, Len(conn[c].found_blob.data)))
        /\ conn[c].pc = "send_body" =>
             \E status \in Statuses :
               LET header == WireHeader(status, Len(conn[c].found_blob.data))
               IN  IsPrefix(header, out) /\ IsPrefix(out, header \o conn[c].found_blob.data)
        /\ conn[c].pc \in {"close", "close_fallback"} \/ conn[c].exit = EXIT_NOTFOUND_NOT_FOUND =>
             \E status \in Statuses, n \in 0..Len(out) :
               Len(out) = Len(WireHeader(status, n)) + n /\ StartsResponse(out, status, n)
        /\ conn[c].exit = EXIT_OK =>
             \E status \in Statuses, i \in 1..Len(table) :
               IsResponse(out, status, table[i].data.data)

\* C9, witness: a worker has written the whole of a 200 response with a
\* body of two bytes.
C9_Witness ==
    \E c \in Workers :
      /\ conn[c].exit = EXIT_OK
      /\ conn[c].out = WireHeader(OK_200, 2) \o <<"y", "z">>

(***************************************************************************)
(* C10.  A connection sees at most one read of a request and at most one   *)
(* response (one header send and one body send, or the one fallback send). *)
(* The listener holds the accepted descriptor only from fork() to the      *)
(* close(ns) that follows it, never while it waits for the next            *)
(* connection; a worker that has terminated, however it did, holds it no   *)
(* more; so every connection whose worker has terminated comes to be held  *)
(* by no process of the server.  A worker that got to the end of its       *)
(* response shut the connection down and closed it before it exited.       *)
(***************************************************************************)
OneExchange ==
    \A c \in Conns :
      LET w == conn[c] IN
        /\ Count(w.ev, "read") <= 1
        /\ Count(w.ev, "send") <= (IF w.kind = "fallback" THEN 1 ELSE 2)
        /\ Count(w.ev, "read") = 1 => w.ev[1] = "read"
        /\ w.rd.calls > 0 => Count(w.ev, "send") = 0 /\ w.out = <<>>
        /\ w.pc # "idle" => w.parent_fd \in {"open", "closed"}
        /\ w.parent_fd = "open" => mpc = "close_ns" /\ c = NewestConn
        /\ w.pc \in {"exited", "killed", "dropped"} => w.fd # "open"
        /\ w.pc \notin {"idle", "exited", "killed", "dropped"} => w.fd = "open"
        /\ w.exit \in {EXIT_OK, EXIT_NOTFOUND_NOT_FOUND} =>
             EndsWith(w.ev, <<"send", "shutdown", "close", "exit">>)
        /\ w.pc = "exited" => w.ev[Len(w.ev)] = "exit" /\ Count(w.ev, "exit") = 1

ClosedByAll(c) == conn[c].fd = "closed" /\ conn[c].parent_fd = "closed"

C10_OneExchangeThenClosed ==
    /\ []OneExchange
    /\ \A c \in Conns : Terminated(c) ~> [](Terminated(c) /\ ClosedByAll(c))

\* C10, witness: a worker has terminated normally before the listener got to
\* close its copy of the descriptor, an earlier one through a failure, and
\* the earlier connection is held by no one.
C10_Witness ==
    \E c, d \in Conns :
      /\ conn[c].pc = "exited" /\ conn[c].exit = EXIT_OK
      /\ conn[c].fd = "closed" /\ conn[c].parent_fd = "open"
      /\ conn[d].pc = "exited" /\ conn[d].exit = EXIT_SOCKET_READ_FAILED
      /\ ClosedByAll(d)

(***************************************************************************)
(* C11.  When two connections that asked for two distinct routes of the    *)
(* table are under way together, then however their workers' steps are     *)
(* interleaved, what each has written is at every moment a prefix of the   *)
(* header and body of its own route, and all of it once the worker has     *)
(* finished: no byte of the other response is in its stream.               *)
(***************************************************************************)
ResponseOf(route) == WireHeader(OK_200, Len(BytesAt(route))) \o BytesAt(route)

\* The pairs of connections with distinct routes of the table.
DistinctHits ==
    { p \in Looked \X Looked :
        /\ p[1] # p[2]
        /\ conn[p[1]].get_path \in Keys
        /\ conn[p[2]].get_path \in Keys
        /\ conn[p[1]].get_path # conn[p[2]].get_path }

C11_OwnResponseOnly ==
    \A p \in DistinctHits :
      LET w == conn[p[1]] IN
        /\ IsPrefix(w.out, ResponseOf(w.get_path))
        /\ w.exit = EXIT_OK => w.out = ResponseOf(w.get_path)
        /\ w.pc = "send_header" =>
             IsPrefix(w.out, WireHeader(OK_200, Len(BytesAt(w.get_path))))
        /\ w.pc = "send_body" =>
             IsPrefix(WireHeader(OK_200, Len(BytesAt(w.get_path))), w.out)

\* C11, witness: two workers are both between header and body of two
\* different routes whose responses differ.
C11_Witness ==
    \E p \in DistinctHits :
      /\ conn[p[1]].pc = "send_body"
      /\ conn[p[2]].pc = "send_body"
      /\ Len(conn[p[1]].out) > 0
      /\ ResponseOf(conn[p[1]].get_path) # ResponseOf(conn[p[2]].get_path)

(***************************************************************************)
(* C12.  Startup is ordered: the listening socket exists only once the     *)
(* walk of the web root has come back to the root and the scan has         *)
(* returned; the privilege restriction is entered only with the socket     *)
(* listening; a connection is accepted only under the restriction.  From   *)
(* the return of the scan on, and so at and after the first accept, no     *)
(* step of the listener or of a worker changes the route table.            *)
(***************************************************************************)
\* The walk has delivered the root for the last time.
WalkFinished == fts.node = 1 /\ fts.info \in {"DP", "F"}

Accepted == { c \in Conns : conn[c].pc # "idle" }

StartupOrdered ==
    /\ ScanDone => WalkFinished
    /\ listening => ScanDone
    /\ sandboxed => ScanDone /\ (listening \/ mpc = "exited")
    /\ Accepted # {} => sandboxed
    /\ InAcceptLoop => listening /\ sandboxed

TableFrozen ==
    ScanDone \/ Accepted # {} \/ (\E c \in Conns : conn'[c].pc # "idle")
      => table' = table /\ max_path_len' = max_path_len

C12_StartupOrder == []StartupOrdered /\ [][TableFrozen]_vars

\* C12, witness: a connection has been accepted by a listening, restricted
\* server whose table holds the routes of the site.
C12_Witness ==
    /\ Accepted # {}
    /\ listening /\ sandboxed
    /\ Len(table) > 1
    /\ \E c \in Accepted : conn[c].exit = EXIT_OK

(***************************************************************************)
(* C13.  A file whose read delivers a number of bytes other than the size  *)
(* in its metadata is never inserted (the scan aborts at it); every blob   *)
(* of the table holds exactly as many bytes of its file as its length; and *)
(* no partially read file is served: a worker that answered 200 OK for a   *)
(* route and finished has sent the whole of the file as it was when it was *)
(* read.  The last part fails: see the divergence recorded for C13.        *)
(***************************************************************************)
Sources == { table[i].src : i \in 1..Len(table) }

C13_NoPartialFile ==
    /\ \A n \in 1..Len(fs) : Len(fs[n].data) < fs[n].st_size => n \notin Sources
    /\ fatal_at # 0 /\ mexit = EXIT_FREAD_FAILED => fatal_at \notin Sources
    /\ \A i \in 1..Len(table) :
         /\ Len(table[i].data.data) = table[i].data.length
         /\ IsPrefix(table[i].data.data, fs[table[i].src].data)
         /\ \A c \in Looked :
              conn[c].get_path = table[i].key /\ conn[c].exit = EXIT_OK
                => conn[c].out = WireHeader(OK_200, Len(fs[table[i].src].data))
                                   \o fs[table[i].src].data

(***************************************************************************)
(* C14.  The request read takes the peer's bytes until max_path_len + 5    *)
(* are in or the peer closes.  A peer that closes after fewer than 5 bytes *)
(* ends the worker with EXIT_SOCKET_WEIRD_RX_LENGTH; a read that fails or  *)
(* times out before the bound (or has no buffer to deliver a byte into)    *)
(* ends it with EXIT_SOCKET_READ_FAILED, a                                 *)
(* different code; in both cases nothing is looked up and nothing is       *)
(* written.  Otherwise the buffer holds exactly the bytes received, at     *)
(* least 5 and at most the bound.                                          *)
(***************************************************************************)
\* The workers that have called socket_read.
HaveRead == { c \in Workers : Count(conn[c].ev, "read") = 1 }

ReadBound == max_path_len + 5

C14_ReadOutcome ==
    /\ EXIT_SOCKET_WEIRD_RX_LENGTH # EXIT_SOCKET_READ_FAILED
    /\ \A c \in HaveRead :
         LET w == conn[c]
             sent == Len(w.peer.data)
             got == IF sent < ReadBound THEN sent ELSE ReadBound
             no_buffer == w.rd.buffer = "NULL" /\ sent > 0
             closed_short == w.peer.end = "close" /\ sent < 5 /\ ~no_buffer
             failed == (w.peer.end = "error" /\ sent < ReadBound) \/ no_buffer
         IN  /\ w.exit = EXIT_SOCKET_WEIRD_RX_LENGTH <=> closed_short
             /\ w.exit = EXIT_SOCKET_READ_FAILED <=> failed
             /\ closed_short \/ failed =>
                  /\ w.out = <<>>
                  /\ w.ev = <<"read", "close", "exit">>
                  /\ w.kind = "none"
                  /\ w.fd = "closed"
             /\ ~closed_short /\ ~failed =>
                  /\ got >= 5 /\ got <= ReadBound
                  /\ w.in_buf = SubSeq(w.peer.data, 1, got) \o <<NUL>>

\* C14, witness: a worker was ended by a peer that sent three bytes in one
\* read and then closed, with the code of the length and nothing written.
C14_Witness ==
    \E c \in HaveRead :
      /\ conn[c].exit = EXIT_SOCKET_WEIRD_RX_LENGTH
      /\ conn[c].rd.received = 3
      /\ conn[c].rd.calls = 2
      /\ conn[c].out = <<>>

(***************************************************************************)
(* C15.  Of the requests received in full measure, exactly those that      *)
(* start with the bytes "GET " and whose next token (after any run of      *)
(* space, CR, LF, TAB, up to the next of these) is non-empty and starts    *)
(* with '/' are taken to the route lookup.  Any other method literal,      *)
(* "get" included, ends the worker with EXIT_NON_GET_REQUEST; a missing    *)
(* token or one that does not start with '/' ends it with                  *)
(* EXIT_WEIRD_REQUEST_PATH; neither looks anything up nor writes a byte.   *)
(***************************************************************************)
Whitespace == {" ", CR, LF, TAB}

\* The bytes socket_read has taken from the peer.
Received(c) ==
    LET sent == Len(conn[c].peer.data)
    IN  SubSeq(conn[c].peer.data, 1, IF sent < ReadBound THEN sent ELSE ReadBound)

\* The first whitespace-delimited token of s.
FirstToken(s) ==
    LET starts == { i \in 1..Len(s) : s[i] \notin Whitespace }
        from == IF starts = {} THEN Len(s) + 1
                ELSE CHOOSE i \in starts : \A j \in starts : i <= j
        stops == { i \in from..Len(s) : s[i] \in Whitespace }
        to == IF stops = {} THEN Len(s) + 1
              ELSE CHOOSE i \in stops : \A j \in stops : i <= j
    IN  SubSeq(s, from, to - 1)

IsGet(req) == IsPrefix(<<"G", "E", "T", " ">>, req)

PathToken(req) == FirstToken(SubSeq(req, 5, Len(req)))

HasPath(req) == PathToken(req) # <<>> /\ Head(PathToken(req)) = "/"

\* The workers that are past the checks of the request.
Parsed ==
    { c \in HaveRead :
        /\ conn[c].pc \notin {"read", "parse"}
        /\ conn[c].exit \notin {EXIT_SOCKET_READ_FAILED, EXIT_SOCKET_WEIRD_RX_LENGTH} }

C15_OnlyGetWithPath ==
    \A c \in Parsed :
      LET w == conn[c]
          req == Received(c)
          refused == w.out = <<>> /\ w.ev = <<"read", "exit">> /\ w.pc = "exited"
      IN  /\ Count(w.ev, "lookup") > 0 <=> IsGet(req) /\ HasPath(req)
          /\ w.exit = EXIT_NON_GET_REQUEST <=> ~IsGet(req)
          /\ w.exit = EXIT_WEIRD_REQUEST_PATH <=> IsGet(req) /\ ~HasPath(req)
          /\ ~(IsGet(req) /\ HasPath(req)) => refused

\* C15, witness: a worker has refused a GET whose token does not start with
\* '/', without a lookup.
C15_Witness ==
    \E c \in Parsed :
      /\ conn[c].exit = EXIT_WEIRD_REQUEST_PATH
      /\ IsGet(Received(c))
      /\ PathToken(Received(c)) # <<>>
      /\ Count(conn[c].ev, "lookup") = 0

(***************************************************************************)
(* The scan of a directory that holds one name twice.  fts_read returns    *)
(* what readdir delivers, and readdir delivers what the directory holds:   *)
(* a damaged directory has two entries of one name, and a directory that   *)
(* is changed while it is read may deliver an entry a second time.  Both   *)
(* entries are stat'ed and opened by that name, so both are the same file. *)
(* (scan_web_root run over an ext2 directory with two entries named d gets *)
(* FTS_F for the path w/d twice.)                                          *)
(***************************************************************************)
TreeTwice(root) ==
    << Entry(0, root, "dir"),
       File(1, <<"d">>, <<"x">>),
       File(1, <<"d">>, <<"x">>),
       File(1, <<"a">>, <<"x">>) >>

ScenariosAny == Scenarios \cup { Scenario(W_plain, FALSE, TreeTwice(W_plain), R_e) }

InitAny == \E sc \in ScenariosAny : StartOf(sc)

SpecAny == InitAny /\ [][Next]_vars

(***************************************************************************)
(* C16.  No route is in the table twice, and every file the loop has got   *)
(* past without aborting has an entry of its own: a route that is already  *)
(* present is never passed over with the old entry kept.  This fails: see  *)
(* the divergence recorded for C16.                                        *)
(***************************************************************************)
RoutesOnce == \A i, j \in 1..Len(table) : table[i].key = table[j].key => i = j

\* The file the loop has just dealt with and gone on from.
JustRouted ==
    { n \in 1..Len(fs) : fts.node = n /\ fts.info = "F" /\ ~StartsWithDot(EntryName(n)) }

C16_DuplicateAborts ==
    /\ RoutesOnce
    /\ \A n \in JustRouted : n \in Sources

(***************************************************************************)
(* C17.  When the web root is a directory, every route of the table is     *)
(* non-empty, begins with '/', and is the route of exactly one regular     *)
(* file of the tree: that file's path below the root with a trailing       *)
(* "/index.html" collapsed.  The statement is taken for the fts the        *)
(* program is written for, the one that appends to the whole path of the   *)
(* parent (main.c:252-254).  It fails there: see the divergence recorded   *)
(* for C17.                                                                *)
(***************************************************************************)
\* The web root is a directory (given by its path or by a link to it).
RootIsDirectory == fs[1].kind = "dir"

CollapsedPath(n) ==
    IF fs[n].parent # 0 /\ fs[n].name = N_index
    THEN IF fs[n].parent = 1 THEN <<"/">> ELSE RelPath(fs[n].parent)
    ELSE RelPath(n)

C17_RoutesWellFormed ==
    RootIsDirectory /\ ~nappend_trims =>
    \A i \in 1..Len(table) :
      /\ table[i].key # <<>>
      /\ Head(table[i].key) = "/"
      /\ fs[table[i].src].kind = "file"
      /\ table[i].key = CollapsedPath(table[i].src)
      /\ \A j \in 1..Len(table) :
           table[j].src = table[i].src \/ table[j].key = table[i].key => i = j

(***************************************************************************)
(* C18.  The seven ways a worker's exchange fails (read error, received    *)
(* length below the minimum, method other than "GET ", missing or          *)
(* malformed path token, not-found route missing, send error, send without *)
(* progress) end it with seven exit codes that differ from one another and *)
(* from EXIT_OK: every worker that has terminated has done so with an exit *)
(* code, that of the first check its request fails, the checks taken in    *)
(* the order receive, method, path, lookup; the sends come last.  This     *)
(* fails where a send meets a peer that has gone: SIGPIPE ends the worker  *)
(* inside send(), with no exit code at all.                                *)
(***************************************************************************)
WorkerCodes ==
    { EXIT_SOCKET_READ_FAILED, EXIT_SOCKET_WEIRD_RX_LENGTH, EXIT_NON_GET_REQUEST,
      EXIT_WEIRD_REQUEST_PATH, EXIT_NOTFOUND_NOT_FOUND, EXIT_SOCKET_SEND_FAILED,
      EXIT_SOCKET_WEIRD_TX_LENGTH }

\* The workers that have terminated, those apart that a failed setsockopt or
\* asprintf ended.
Ended ==
    { c \in Workers :
        /\ Terminated(c)
        /\ conn[c].exit \notin {EXIT_SETSOCKOPT_FAILED, EXIT_MALLOC_FAILED} }

\* Neither the requested route nor the not-found route is in the table.
NothingToServe(req) ==
    CStr(PathToken(req)) \notin Keys /\ CStr(notfound_route) \notin Keys

\* The codes the request and the peer of worker c leave open.
CodesFor(c) ==
    LET w == conn[c]
        sent == Len(w.peer.data)
        req == Received(c)
    IN  IF (w.peer.end = "error" /\ sent < ReadBound) \/ (w.rd.buffer = "NULL" /\ sent > 0)
        THEN {EXIT_SOCKET_READ_FAILED}
        ELSE IF sent < 5 THEN {EXIT_SOCKET_WEIRD_RX_LENGTH}
        ELSE IF ~IsGet(req) THEN {EXIT_NON_GET_REQUEST}
        ELSE IF ~HasPath(req) THEN {EXIT_WEIRD_REQUEST_PATH}
        ELSE IF NothingToServe(req) THEN {EXIT_NOTFOUND_NOT_FOUND} \cup IoCodes
        ELSE {EXIT_OK} \cup IoCodes

C18_DistinctCodesInOrder ==
    /\ Cardinality(WorkerCodes) = 7
    /\ EXIT_OK \notin WorkerCodes
    /\ \A c \in Ended :
         /\ conn[c].pc = "exited"
         /\ conn[c].exit \in CodesFor(c)
         /\ conn[c].exit \in IoCodes <=>
              Count(conn[c].ev, "send") > 0 /\ Count(conn[c].ev, "close") = 0
         /\ conn[c].exit \in {EXIT_OK, EXIT_NOTFOUND_NOT_FOUND} <=>
              Count(conn[c].ev, "send") > 0 /\ Count(conn[c].ev, "close") = 1

(***************************************************************************)
(* C19.  A socket_send call of a worker puts on the wire the bytes of the  *)
(* message the transport accepts, in order, none skipped or repeated, and  *)
(* returns normally if and only if these are all message_size of them, an  *)
(* empty message included; otherwise it ends the worker with one of two    *)
(* codes: EXIT_SOCKET_WEIRD_TX_LENGTH when a send stopped short with a     *)
(* result of 0, the different EXIT_SOCKET_SEND_FAILED when a send failed.  *)
(* This fails where a send meets a peer that has gone: SIGPIPE ends the    *)
(* worker inside send(), with neither code; and the one send of an empty   *)
(* message can fail although no byte was left to accept.                   *)
(***************************************************************************)
SendPcs == {"send_fallback", "send_header", "send_body"}

\* The message and message_size of the socket_send call a worker is at.
MessageAt(w) ==
    IF w.pc = "send_body" THEN SubSeq(w.found_blob.data, 1, w.found_blob.length)
    ELSE CStr(w.message_buf)

\* The transport has no more to take: the send that comes meets its end.
MeetsEnd(tx, accepted) == tx.limited /\ accepted >= tx.cap

\* What one step of a socket_send call of worker c has done, by the claim.
SendAsClaimed(c) ==
    LET w == conn[c]
        v == conn'[c]
        message == MessageAt(w)
        size == Len(message)
        before == IF w.sd.status = "loop" /\ w.sd.calls > 0 THEN w.sd.sent ELSE 0
        returned == v.pc \notin SendPcs /\ ~Terminated(c)'
    IN  /\ v.sd.sent >= before /\ v.sd.sent <= size
        /\ v.sd.wire = SubSeq(message, 1, v.sd.sent)
        /\ v.out = w.out \o SubSeq(message, before + 1, v.sd.sent)
        /\ returned <=> v.sd.sent = size
        /\ ~returned /\ v.pc \notin SendPcs =>
             /\ v.pc = "exited"
             /\ v.exit \in IoCodes
             /\ v.exit = EXIT_SOCKET_WEIRD_TX_LENGTH <=>
                  MeetsEnd(v.tx, before) /\ v.tx.end = "zero"
             /\ v.exit = EXIT_SOCKET_SEND_FAILED <=>
                  MeetsEnd(v.tx, before) /\ v.tx.end = "error"
             /\ EXIT_SOCKET_WEIRD_TX_LENGTH # EXIT_SOCKET_SEND_FAILED

C19_SendAllOrFail ==
    [][\A c \in Conns : conn[c].pc \in SendPcs /\ WorkerStepped(c) => SendAsClaimed(c)]_vars

(***************************************************************************)
(* C20.  Once the scan has completed, max_path_len is the length of the    *)
(* longest route in the table, 0 for an empty table, so no route is longer *)
(* than it; and every worker reads at most max_path_len + 5 bytes of its   *)
(* request: a peer that sends that many or more has exactly the first      *)
(* max_path_len + 5 of them taken.                                         *)
(***************************************************************************)
RouteLengths == { Len(k) : k \in Keys }

LongestRoute ==
    IF RouteLengths = {} THEN 0
    ELSE CHOOSE n \in RouteLengths : \A m \in RouteLengths : m <= n

\* The workers whose socket_read has returned.
ReadReturned == { c \in HaveRead : conn[c].in_buf # <<>> }

C20_MaxRouteLength ==
    ScanDone =>
      /\ max_path_len = LongestRoute
      /\ \A k \in Keys : Len(k) <= max_path_len
      /\ \A c \in ReadReturned :
           LET w == conn[c]
               taken == Len(w.in_buf) - 1
           IN  /\ taken <= LongestRoute + 5
               /\ Len(w.peer.data) >= LongestRoute + 5 =>
                    /\ taken = LongestRoute + 5
                    /\ SubSeq(w.in_buf, 1, taken) = SubSeq(w.peer.data, 1, LongestRoute + 5)

\* C20, witness: the table holds routes of different lengths and a worker has
\* taken max_path_len + 5 bytes of a request that is longer.
C20_Witness ==
    /\ ScanDone
    /\ Cardinality(RouteLengths) > 1
    /\ \E c \in ReadReturned :
         /\ Len(conn[c].in_buf) - 1 = max_path_len + 5
         /\ Len(conn[c].peer.data) > max_path_len + 5

(***************************************************************************)
(* C21.  A worker answers 200 OK only if the path token the peer has sent, *)
(* the first run of bytes after "GET " that holds no space, CR, LF or TAB, *)
(* is a route of the table; a path longer than every route, cut by the     *)
(* bounded read, is never answered with the 200 of a shorter route.  The   *)
(* statement fails: see the divergence recorded for C21.                   *)
(***************************************************************************)
\* The path token of the whole request of worker c, as the peer sent it.
TokenSent(c) == FirstToken(SubSeq(conn[c].peer.data, 5, Len(conn[c].peer.data)))

\* The workers that have put the start of a 200 response on the wire.
Answered200 == { c \in Workers : IsPrefix(HTTP_1_1 \o STATUS_200, conn[c].out) }

C21_ExactRouteOnly == \A c \in Answered200 : TokenSent(c) \in Keys

(***************************************************************************)
(* C22.  Every read and send call returning, every worker comes to its     *)
(* end, the normal close or a fatal exit; the one send that does not       *)
(* return, the one SIGPIPE ends the worker in, is its end as well.         *)
(* socket_read makes at most                                               *)
(* max_size calls that bring data and one more, socket_send at most        *)
(* message_size calls that make progress and one more; a call that brings  *)
(* nothing is never tried again: it ends the loop.                         *)
(***************************************************************************)
ReadCallsBounded(w) ==
    /\ w.rd.received <= max_path_len + 5
    /\ w.rd.calls <= w.rd.received + 1
    /\ w.rd.calls <= max_path_len + 5 + 1
    /\ w.rd.status = "loop" => w.rd.calls <= w.rd.received

SendCallsBounded(w) ==
    /\ w.sd.sent <= w.sd_size
    /\ w.sd.calls <= w.sd.sent + 1
    /\ w.sd.calls <= w.sd_size + 1
    /\ w.sd.status = "loop" => w.sd.calls <= w.sd.sent

CallsBounded == \A c \in Workers : ReadCallsBounded(conn[c]) /\ SendCallsBounded(conn[c])

\* The worker has come to its end: the close and exit(EXIT_OK), or a fatal
\* exit.  The one call that does not return is a send that raises SIGPIPE:
\* it ends the worker too.
CameToEnd(c) ==
    \/ conn[c].pc = "exited"
    \/ conn[c].pc = "killed" /\ conn[c].tx.end = "sigpipe"

C22_WorkerTerminates ==
    /\ []CallsBounded
    /\ \A c \in Conns : (c \in Workers) ~> CameToEnd(c)

\* C22, witness: a worker has ended after a send that made progress and one
\* more that made none.
C22_Witness ==
    \E c \in Workers :
      /\ conn[c].pc = "exited"
      /\ conn[c].exit = EXIT_SOCKET_WEIRD_TX_LENGTH
      /\ conn[c].sd.sent = 1
      /\ conn[c].sd.calls = 2

(***************************************************************************)
(* C23.  In socket_read received stays between 0 and max_size, every read  *)
(* is asked for no more than the max_size - received bytes that are left,  *)
(* and the NUL goes to index received, so nothing is written outside the   *)
(* max_size + 1 bytes of the buffer, whatever partial reads the peer       *)
(* causes.                                                                 *)
(***************************************************************************)
\* The buffer of worker c holds what was read and nothing beyond its end.
WithinBuffer(w) ==
    LET max_size == max_path_len + 5
    IN  /\ 0 <= w.rd.received /\ w.rd.received <= max_size
        /\ Len(w.rd.in_buf) <= max_size + 1
        /\ w.rd.status = "loop" => Len(w.rd.in_buf) = w.rd.received
        /\ w.rd.status = "done" =>
             /\ Len(w.rd.in_buf) = w.rd.received + 1
             /\ w.rd.in_buf[w.rd.received + 1] = NUL
             /\ w.in_buf = w.rd.in_buf

\* A step of the loop of socket_read in worker c.
ReadCalled(c) == conn[c].pc = "read" /\ conn'[c].rd.calls = conn[c].rd.calls + 1

\* What the call was asked for fits what is left of the buffer, and no more
\* than that was written.
AskedWhatIsLeft(c) ==
    /\ conn'[c].asked >= 0
    /\ conn[c].rd.received + conn'[c].asked <= max_path_len + 5
    /\ conn'[c].rd.received <= conn[c].rd.received + conn'[c].asked

C23_ReadWithinBuffer ==
    /\ [](\A c \in Workers : WithinBuffer(conn[c]))
    /\ [][\A c \in Conns : ReadCalled(c) => AskedWhatIsLeft(c)]_vars

\* C23, witness: the buffer was filled to max_size by several reads, the last
\* of them asked for the one byte that was left.
C23_Witness ==
    \E c \in Workers :
      /\ conn[c].pc = "parse"
      /\ conn[c].rd.received = max_path_len + 5
      /\ conn[c].rd.calls > 1
      /\ conn[c].asked = 1

(***************************************************************************)
(* C24.  The listener leaves the accept loop in one way only: fork fails   *)
(* for a connection it has accepted.  It then closes that connection and   *)
(* the listening socket and exits with EXIT_FORK_FAILED, and no connection *)
(* is accepted afterwards.  Anything else that happens while it accepts, a *)
(* failed accept included, leaves it in the loop, listening.               *)
(***************************************************************************)
ForkFailed == mexit = EXIT_FORK_FAILED

\* The connections that were accepted and closed for want of a worker.
Dropped == { c \in Conns : conn[c].pc = "dropped" }

SpawnFailureEndsServer ==
    /\ Dropped # {} <=> ForkFailed
    /\ ForkFailed =>
         /\ mpc = "exited" /\ ~listening
         /\ Cardinality(Dropped) = 1
         /\ \A c \in Dropped : conn[c].parent_fd = "closed" /\ conn[c].fd # "open"

ListenerStep ==
    /\ InAcceptLoop /\ ~ForkFailed' => InAcceptLoop' /\ listening' /\ mexit' = RUNNING
    /\ ForkFailed' /\ ~ForkFailed => mpc = "accept"
    /\ ForkFailed =>
         /\ UNCHANGED <<mpc, mexit, listening>>
         /\ \A c \in Conns : conn[c].pc \in {"idle", "dropped"} => conn'[c] = conn[c]

C24_AcceptGoesOnForkEnds ==
    /\ []SpawnFailureEndsServer
    /\ [][ListenerStep]_vars

\* C24, witness: fork has failed for the first connection while a second
\* could still have been accepted.
C24_Witness ==
    /\ ForkFailed
    /\ Dropped = {1}
    /\ IdleSlots # {}

=============================================================================
